---- MODULE Spec2Model ----
(***************************************************************************)
(* Model of yappatron's audio segmentation and gating pipeline:            *)
(*   - AudioCapture._process_audio (packages/core/yappatron/audio.py):     *)
(*     cooldown gate, VAD-driven speech/silence segmenter, fingerprint     *)
(*     de-duplication and emission on speech_queue;                        *)
(*   - SpeakerVerificationFilter.process / reset and                       *)
(*     SpeakerIdentifier.verify (packages/core/yappatron/speaker.py).      *)
(*                                                                         *)
(* Time is measured in ticks of 1/TicksPerSecond seconds.  An audio frame  *)
(* is a block of Blocksize samples; the model keeps two values per frame:  *)
(* <<a, b>> is the frame whose samples at even offsets are a and whose     *)
(* samples at odd offsets are b.  An utterance (np.concatenate of equally  *)
(* sized frames) is the sequence of its frames.                            *)
(***************************************************************************)
EXTENDS Integers, Sequences, FiniteSets, TLC

VARIABLES
    \* AudioCapture
    speech_buffer,        \* self._speech_buffer: list of frames
    silence_chunks,       \* self._silence_chunks
    speech_chunk_count,   \* self._speech_chunk_count
    cooldown_until,       \* self._cooldown_until (ticks)
    recent_hashes,        \* self._recent_hashes
    speech_queue,         \* self.speech_queue (FIFO of emitted utterances)
    \* environment and the VAD object
    now,                  \* time.time() (ticks)
    vad_resets,           \* calls of vad.reset() since the last vad.is_speech()
    \* history (observation only, never read by the program)
    episode,              \* <<frame, is_speech>> admitted since the last Idle
    outcome,              \* what the last loop iteration did
    last_audio,           \* full_audio of the last utterance long enough to be hashed
    emit_times,           \* time of each speech_queue.put
    \* SpeakerVerificationFilter / SpeakerIdentifier
    enrolled,             \* identifier.is_enrolled
    available,            \* the speaker model can be imported and loaded
    audio_buffer,         \* self._audio_buffer: list of chunks
    buffer_samples,       \* self._buffer_samples
    last_verified,        \* self._last_verified
    samples_since_verification, \* self._samples_since_verification
    \* history of the filter (observation only)
    chunks_fed,           \* number of process() calls so far (the chunk's serial)
    min_reached,          \* a process() since the last reset() saw min_samples buffered
    last_call,            \* the last call on the filter: its argument and what it returned
    last_verify,          \* the verify() call made by the last process(), if any
    abandoned,            \* history: the latest chunk dropped by a rejection, or 0
    ever_verified,        \* history: a verify() call has matched since the last reset
    \* the queues between the device callback, the consumer and the caller
    audio_queue,          \* self.audio_queue (FIFO of captured frames)
    delivered,            \* history: what get_speech() has returned, in order
    captured,             \* history: number of frames the callback has enqueued
    dequeued,             \* history: number of frames the consumer has dequeued
    got,                  \* history: the frame the consumer dequeued last
    fed,                  \* history: the episode the environment is playing
    \* Yappatron (its segmenter fields are those of AudioCapture, same names)
    is_speaking,          \* self._is_speaking
    paused,               \* self._paused
    speaker_id,           \* self.speaker is not None (enable_speaker_id)
    events,               \* history: emit_speech_start / emit_speech_end calls
    transcribed,          \* history: utterances handed to transcribe_utterance
    \* StreamingAudioCapture (is_speaking, silence_chunks: same names as above)
    chunk_queue,          \* self.chunk_queue
    invoked,              \* history: what the last device callback called
    heard,                \* history: the last frame's class, and the silence run it ends
    \* AudioCapture.start / stop and the consumer threads
    running,              \* self._running
    stream,               \* self._stream is an open input stream
    processor_thread,     \* self._processor_thread: a thread, or 0 for None
    threads,              \* every thread start() has created: where it is, what it holds
    caller,               \* where the thread calling start() and stop() is
    stale,                \* history: the frames that were buffered at the last stop()
    \* SpeakerIdentifier._ensure_model and the threads calling it
    model,                \* self._model: "none" for None, or "loaded"
    model_lock,           \* self._model_lock: the caller holding it, or 0
    callers,              \* each calling thread: where it is, what it last got back
    loads,                \* history: from_hparams calls begun, and completed
    \* What became of the chunks given to SpeakerVerificationFilter.process
    returned_log,         \* history: the audio of every call that returned audio
    cleared,              \* history: the chunks dropped by a rejection or a reset
    \* RealtimeTranscriber
    utterance_queue,      \* self._utterance_queue
    tr_running,           \* self._running
    tr_thread,            \* self._thread: a thread, or 0 for None
    tr_workers,           \* every thread start() has created: where it is, what it holds
    tr_caller,            \* where the thread calling start() and stop() is
    tr_log                \* history: the transcriptions begun and ended, in order

audioVars == <<speech_buffer, silence_chunks, speech_chunk_count, cooldown_until,
               recent_hashes, speech_queue, now, vad_resets,
               episode, outcome, last_audio, emit_times>>
filterVars == <<enrolled, available, audio_buffer, buffer_samples, last_verified,
                samples_since_verification, chunks_fed, min_reached, last_call,
                last_verify, abandoned, ever_verified>>
pipeVars == <<audio_queue, delivered, captured, dequeued, got, fed>>
mainVars == <<is_speaking, paused, speaker_id, events, transcribed>>
streamVars == <<chunk_queue, invoked, heard>>
lifeVars == <<running, stream, processor_thread, threads, caller, stale>>
modelVars == <<model, model_lock, callers, loads>>
overlapVars == <<returned_log, cleared>>
transVars == <<utterance_queue, tr_running, tr_thread, tr_workers, tr_caller, tr_log>>
outerVars == <<pipeVars, mainVars, streamVars, lifeVars, modelVars, overlapVars,
               transVars>>
vars == <<audioVars, filterVars, outerVars>>

----------------------------------------------------------------------------
(* Program constants                                                       *)

MaxSilenceChunks == 25
MinSpeechChunks == 8
TrailingSilence == 3
CooldownDuration == 1
MaxRecent == 5
Blocksize == 512
Stride == 100
MinSamples == 8000
VerificationInterval == 32000
TrimAbove == 5
KeepChunks == 3
\* StreamingAudioCapture: silence frames that end the speech, and those passed on
StreamMaxSilence == 30
StreamTrailing == 5
\* RealtimeTranscriber: the shortest utterance that is transcribed, in samples
MinUtterance == 4800
\* SpeakerConfig.threshold and the two permissive scores, in hundredths
Threshold == 25
ScoreUnverified == 100
ScoreOnError == 0

(* Bounds of the model                                                     *)

TicksPerSecond == 2
MaxTime == 3
MaxBuf == 9
MaxGap == 4
NumContents == 6
MaxChunks == 20
MaxResets == 2
MaxQueue == 2
MaxEpisodes == 3
ShortSpeech == 1
MaxEvents == 4
MainGap == 1
MaxStream == 3
MaxStarts == 2
NumCallers == 2
MaxCalls == 2
MaxFrames == 85
MaxUtterances == 3

CooldownTicks == CooldownDuration * TicksPerSecond

SilenceFrame == <<0, 0>>
SpeechFrame == <<1, 1>>

\* The speech frames of the de-duplication runs: NumContents audio contents,
\* and one more frame that differs from content 1 at the odd offsets only.
DedupFrames == {<<c, 1>> : c \in 1..NumContents} \cup {<<1, 2>>}
DedupHorizon == NumContents * CooldownTicks

----------------------------------------------------------------------------
(* Fingerprint of an utterance                                             *)

Sample(frame, offset) == IF offset % 2 = 0 THEN frame[1] ELSE frame[2]

SampleAt(audio, i) == Sample(audio[(i \div Blocksize) + 1], i % Blocksize)

NumSamples(audio) == Len(audio) * Blocksize

\* audio[::100]: the samples at indices 0, 100, 200, ...
Downsample(audio) ==
    [k \in 1..((NumSamples(audio) + Stride - 1) \div Stride) |->
        SampleAt(audio, (k - 1) * Stride)]

\* md5(...).hexdigest()[:16] of the downsampled bytes.  The digest is taken
\* to be collision free, so it is identified with the bytes it digests.
HashAudio(audio) == Downsample(audio)

----------------------------------------------------------------------------
(* The steps of AudioCapture._process_audio                                *)

\* Faulty variant: a gate that is never closed
CooldownActiveNever(t) == FALSE

\* Faulty variant: the gate still closed at the instant the cooldown ends
CooldownActiveInclusive(t) == t <= cooldown_until

CooldownActive(t) == t < cooldown_until

\* Faulty variant: the cooldown armed without its duration
ArmCooldownNoDuration(t) == t

ArmCooldown(t) == t + CooldownTicks

\* Faulty variant: one trailing silence frame too many
KeepsTrailingLong(silence) == silence <= TrailingSilence + 1

\* Faulty variant: one trailing silence frame too few
KeepsTrailingShort(silence) == silence < TrailingSilence

KeepsTrailing(silence) == silence <= TrailingSilence

\* Faulty variant: the utterance ended one silence frame early
EndOfUtteranceEarly(silence) == silence >= MaxSilenceChunks - 1

EndOfUtterance(silence) == silence >= MaxSilenceChunks

\* Faulty variant: any amount of speech counted as enough
EnoughSpeechAlways(count) == TRUE

\* Faulty variant: an utterance of exactly MinSpeechChunks speech frames refused
EnoughSpeechStrict(count) == count > MinSpeechChunks

EnoughSpeech(count) == count >= MinSpeechChunks

\* Faulty variant: no fingerprint compared
IsDuplicateNever(h, hashes) == FALSE

\* Faulty variant: only the latest fingerprint compared
IsDuplicateLastOnly(h, hashes) == hashes # <<>> /\ hashes[Len(hashes)] = h

IsDuplicate(h, hashes) == \E i \in 1..Len(hashes) : hashes[i] = h

\* Faulty variant: the oldest fingerprint evicted one acceptance early
InsertHashEvictEarly(hashes, h) ==
    LET appended == Append(hashes, h)
    IN  IF Len(appended) > MaxRecent - 1 THEN Tail(appended) ELSE appended

\* Faulty variant: the oldest fingerprint never evicted
InsertHashNoEvict(hashes, h) == Append(hashes, h)

InsertHash(hashes, h) ==
    LET appended == Append(hashes, h)
    IN  IF Len(appended) > MaxRecent THEN Tail(appended) ELSE appended

\* Faulty variant: the classifier not reset
VadResetSkipped(resets) == resets

VadReset(resets) == resets + 1

\* Faulty variant: the speech count kept across utterances
ResetStateKeepsCount ==
    /\ speech_buffer' = <<>>
    /\ silence_chunks' = 0
    /\ UNCHANGED speech_chunk_count

\* "Reset state" at the end of an utterance.
ResetState ==
    /\ speech_buffer' = <<>>
    /\ speech_chunk_count' = 0
    /\ silence_chunks' = 0

\* One iteration of the consumer loop with a dequeued chunk that the VAD
\* classifies as is_speech.
ProcessAudio(chunk, is_speech) ==
    IF CooldownActive(now)
    THEN /\ outcome' = "dropped"
         /\ UNCHANGED <<speech_buffer, silence_chunks, speech_chunk_count,
                        cooldown_until, recent_hashes, speech_queue, now,
                        vad_resets, episode, last_audio, emit_times>>
    ELSE IF is_speech
    THEN /\ speech_buffer' = Append(speech_buffer, chunk)
         /\ speech_chunk_count' = speech_chunk_count + 1
         /\ silence_chunks' = 0
         /\ vad_resets' = 0
         /\ episode' = Append(episode, <<chunk, TRUE>>)
         /\ outcome' = "speech"
         /\ UNCHANGED <<cooldown_until, recent_hashes, speech_queue, now,
                        last_audio, emit_times>>
    ELSE IF speech_buffer = <<>>
    THEN /\ vad_resets' = 0
         /\ outcome' = "idle"
         /\ UNCHANGED <<speech_buffer, silence_chunks, speech_chunk_count,
                        cooldown_until, recent_hashes, speech_queue, now,
                        episode, last_audio, emit_times>>
    ELSE LET silence == silence_chunks + 1
             buffer == IF KeepsTrailing(silence)
                       THEN Append(speech_buffer, chunk) ELSE speech_buffer
             full_audio == buffer
             audio_hash == HashAudio(full_audio)
             valid == EnoughSpeech(speech_chunk_count)
             fresh == valid /\ ~IsDuplicate(audio_hash, recent_hashes)
         IN  IF EndOfUtterance(silence)
             THEN /\ recent_hashes' = IF fresh THEN InsertHash(recent_hashes, audio_hash)
                                      ELSE recent_hashes
                  /\ speech_queue' = IF fresh THEN Append(speech_queue, full_audio)
                                     ELSE speech_queue
                  /\ emit_times' = IF fresh THEN Append(emit_times, now) ELSE emit_times
                  /\ cooldown_until' = IF fresh THEN ArmCooldown(now) ELSE cooldown_until
                  /\ ResetState
                  /\ vad_resets' = VadReset(0)
                  /\ episode' = <<>>
                  /\ last_audio' = IF valid THEN full_audio ELSE last_audio
                  /\ outcome' = IF fresh THEN "emitted"
                                ELSE IF valid THEN "duplicate" ELSE "short"
                  /\ UNCHANGED now
             ELSE /\ speech_buffer' = buffer
                  /\ silence_chunks' = silence
                  /\ vad_resets' = 0
                  /\ episode' = Append(episode, <<chunk, FALSE>>)
                  /\ outcome' = "silence"
                  /\ UNCHANGED <<speech_chunk_count, cooldown_until, recent_hashes,
                                 speech_queue, now, last_audio, emit_times>>

\* The wall clock advances by ticks, up to limit.
Advance(ticks, limit) ==
    /\ now + ticks <= limit
    /\ now' = now + ticks
    /\ UNCHANGED <<speech_buffer, silence_chunks, speech_chunk_count, cooldown_until,
                   recent_hashes, speech_queue, vad_resets, episode,
                   outcome, last_audio, emit_times>>

----------------------------------------------------------------------------
(* SpeakerIdentifier.verify and SpeakerVerificationFilter                  *)

\* A chunk is its serial number and its number of samples.
ChunkSizes == {Blocksize, 8 * Blocksize}

\* What the embedding model makes of the audio handed to verify: it cannot
\* be loaded, the extraction or the similarity computation raises, or an
\* embedding is obtained whose cosine similarity (in hundredths) to the
\* enrolled one is given.
Similarities == {Threshold - 1, Threshold}

Verdicts ==
    {[kind |-> "unavailable", similarity |-> 0], [kind |-> "error", similarity |-> 0]}
    \cup {[kind |-> "embedding", similarity |-> s] : s \in Similarities}

\* The answers the model can give, whether or not it can be loaded.
VerdictsOf(is_available) ==
    {v \in Verdicts : (v.kind = "unavailable") <=> ~is_available}

NoVerify == [called |-> FALSE, verdict |-> [kind |-> "none", similarity |-> 0],
             is_match |-> FALSE, score |-> 0]

NoAudio == <<>>
NoChunk == [id |-> 0, n |-> 0]
NoCall == [kind |-> "none", chunk |-> NoChunk, samples |-> 0, verified |-> FALSE,
           has_audio |-> FALSE, audio |-> NoAudio, verifies |-> 0]

\* Faulty variant: a failed extraction counted as a mismatch
VerifyRejectsOnError(is_enrolled, verdict) ==
    IF ~is_enrolled THEN <<TRUE, ScoreUnverified>>
    ELSE IF verdict.kind = "unavailable" THEN <<TRUE, ScoreUnverified>>
    ELSE IF verdict.kind = "error" THEN <<FALSE, ScoreOnError>>
    ELSE <<verdict.similarity >= Threshold, verdict.similarity>>

\* verify(audio): <<is_match, score>>
Verify(is_enrolled, verdict) ==
    IF ~is_enrolled THEN <<TRUE, ScoreUnverified>>
    ELSE IF verdict.kind = "unavailable" THEN <<TRUE, ScoreUnverified>>
    ELSE IF verdict.kind = "error" THEN <<TRUE, ScoreOnError>>
    ELSE <<verdict.similarity >= Threshold, verdict.similarity>>

\* Faulty variant: verification attempted on any amount of audio
TooShortNever(samples) == FALSE

TooShort(samples) == samples < MinSamples

\* Faulty variant: no re-verification once verified
NeedsVerificationOnce(verified, since) == ~verified

\* Faulty variant: the buffer never trimmed
TrimmedNever(buffer) == buffer

NeedsVerification(verified, since) ==
    ~verified \/ since >= VerificationInterval

RECURSIVE SumSamples(_)
SumSamples(buffer) ==
    IF buffer = <<>> THEN 0 ELSE buffer[1].n + SumSamples(Tail(buffer))

\* Faulty variant: every silence frame of a run is passed on
StreamKeepsAll(silence) == TRUE

\* Faulty variant: one chunk more kept
OverlapLonger(buffer) ==
    IF Len(buffer) > KeepChunks + 1
    THEN SubSeq(buffer, Len(buffer) - KeepChunks, Len(buffer)) ELSE buffer

\* self._audio_buffer[-3:]
Overlap(buffer) ==
    IF Len(buffer) > KeepChunks
    THEN SubSeq(buffer, Len(buffer) - KeepChunks + 1, Len(buffer)) ELSE buffer

Trimmed(buffer) == IF Len(buffer) > TrimAbove THEN Overlap(buffer) ELSE buffer

Returned(chunk, samples, verified, buffer, verifies) ==
    [kind |-> "process", chunk |-> chunk, samples |-> samples, verified |-> verified,
     has_audio |-> verified, audio |-> IF verified THEN buffer ELSE NoAudio,
     verifies |-> verifies]

\* Faulty variant: the overlap kept on a rejection too
AbandonKeepsOverlap(buffer) == Overlap(buffer)

\* self._audio_buffer = [] on a rejection
Abandon(buffer) == <<>>

\* process(audio_chunk), the embedding model answering verdict if asked.
Process(chunk, verdict) ==
    LET buffer == Append(audio_buffer, chunk)
        samples == buffer_samples + chunk.n
        since == samples_since_verification + chunk.n
        is_match == Verify(enrolled, verdict)[1]
    IN  /\ chunks_fed' = chunks_fed + 1
        /\ min_reached' = (min_reached \/ ~TooShort(samples))
        /\ UNCHANGED <<enrolled, available>>
        /\ last_verify' =
              IF ~TooShort(samples) /\ NeedsVerification(last_verified, since)
              THEN [called |-> TRUE, verdict |-> verdict,
                    is_match |-> Verify(enrolled, verdict)[1],
                    score |-> Verify(enrolled, verdict)[2]]
              ELSE NoVerify
        /\ abandoned' =
              IF ~TooShort(samples) /\ NeedsVerification(last_verified, since) /\ ~is_match
              THEN chunk.id ELSE abandoned
        /\ ever_verified' =
              (ever_verified
               \/ (~TooShort(samples) /\ NeedsVerification(last_verified, since) /\ is_match))
        /\ IF TooShort(samples)
           THEN /\ audio_buffer' = buffer
                /\ buffer_samples' = samples
                /\ samples_since_verification' = since
                /\ UNCHANGED last_verified
                /\ last_call' = Returned(chunk, samples, FALSE, buffer, 0)
           ELSE IF NeedsVerification(last_verified, since)
           THEN /\ last_verified' = is_match
                /\ samples_since_verification' = 0
                /\ IF ~is_match
                   THEN /\ audio_buffer' = Abandon(buffer)
                        /\ buffer_samples' = 0
                        /\ last_call' = Returned(chunk, samples, FALSE, buffer, 1)
                   ELSE /\ audio_buffer' = Trimmed(buffer)
                        /\ buffer_samples' = SumSamples(Trimmed(buffer))
                        /\ last_call' = Returned(chunk, samples, TRUE, buffer, 1)
           ELSE /\ audio_buffer' = Trimmed(buffer)
                /\ buffer_samples' = SumSamples(Trimmed(buffer))
                /\ samples_since_verification' = since
                /\ UNCHANGED last_verified
                /\ last_call' = Returned(chunk, samples, TRUE, buffer, 0)

\* Faulty variant: a reset that keeps the cached verdict
ResetKeepsVerified ==
    /\ audio_buffer' = <<>>
    /\ buffer_samples' = 0
    /\ UNCHANGED last_verified
    /\ samples_since_verification' = 0
    /\ min_reached' = FALSE
    /\ last_call' = [NoCall EXCEPT !.kind = "reset"]
    /\ last_verify' = NoVerify
    /\ ever_verified' = FALSE
    /\ UNCHANGED <<enrolled, available, chunks_fed, abandoned>>

\* Faulty variant: a reset that flips the cached verdict
ResetTogglesVerified ==
    /\ audio_buffer' = <<>>
    /\ buffer_samples' = 0
    /\ last_verified' = ~last_verified
    /\ samples_since_verification' = 0
    /\ min_reached' = FALSE
    /\ last_call' = [NoCall EXCEPT !.kind = "reset"]
    /\ last_verify' = NoVerify
    /\ ever_verified' = FALSE
    /\ UNCHANGED <<enrolled, available, chunks_fed, abandoned>>

\* reset()
Reset ==
    /\ audio_buffer' = <<>>
    /\ buffer_samples' = 0
    /\ last_verified' = FALSE
    /\ samples_since_verification' = 0
    /\ min_reached' = FALSE
    /\ last_call' = [NoCall EXCEPT !.kind = "reset"]
    /\ last_verify' = NoVerify
    /\ ever_verified' = FALSE
    /\ UNCHANGED <<enrolled, available, chunks_fed, abandoned>>

----------------------------------------------------------------------------
(* Specification of the segmenter: any classification of every frame.      *)

InitAudio ==
    /\ speech_buffer = <<>>
    /\ silence_chunks = 0
    /\ speech_chunk_count = 0
    /\ cooldown_until = 0
    /\ recent_hashes = <<>>
    /\ speech_queue = <<>>
    /\ now = 0
    /\ vad_resets = 0
    /\ episode = <<>>
    /\ outcome = "none"
    /\ last_audio = <<>>
    /\ emit_times = <<>>

InitFilter ==
    /\ enrolled \in BOOLEAN
    /\ available \in BOOLEAN
    /\ audio_buffer = <<>>
    /\ buffer_samples = 0
    /\ last_verified = FALSE
    /\ samples_since_verification = 0
    /\ chunks_fed = 0
    /\ min_reached = FALSE
    /\ last_call = NoCall
    /\ last_verify = NoVerify
    /\ abandoned = 0
    /\ ever_verified = FALSE

NoFrame == <<0, 0>>
NoEpisode == [content |-> 0, speech |-> 0, silence |-> 0, played |-> 0]

InitPipe ==
    /\ audio_queue = <<>>
    /\ delivered = <<>>
    /\ captured = 0
    /\ dequeued = 0
    /\ got = NoFrame
    /\ fed = NoEpisode

InitMain ==
    /\ is_speaking = FALSE
    /\ paused = FALSE
    /\ speaker_id \in BOOLEAN
    /\ events = <<>>
    /\ transcribed = <<>>

NothingHeard == [is_speech |-> FALSE, run |-> 0]

InitStream ==
    /\ chunk_queue = <<>>
    /\ invoked = {}
    /\ heard = NothingHeard

NoThread == [pc |-> "none", chunk |-> NoFrame]
NoUtterance == [id |-> 0, n |-> 0, none |-> TRUE]
NoStale == [frames |-> 0, restarted |-> FALSE]

InitLife ==
    /\ running = FALSE
    /\ stream = FALSE
    /\ processor_thread = 0
    /\ threads = [t \in 1..MaxStarts |-> NoThread]
    /\ caller = "idle"
    /\ stale = NoStale

NoCaller == [pc |-> "idle", calls |-> 0, result |-> "none"]

InitModel ==
    /\ model = "none"
    /\ model_lock = 0
    /\ callers = [c \in 1..NumCallers |-> NoCaller]
    /\ loads = [started |-> 0, done |-> 0]

InitOverlap ==
    /\ returned_log = <<>>
    /\ cleared = {}

NoWorker == [pc |-> "none", audio |-> NoUtterance]

InitTranscriber ==
    /\ utterance_queue = <<>>
    /\ tr_running = FALSE
    /\ tr_thread = 0
    /\ tr_workers = [w \in 1..MaxStarts |-> NoWorker]
    /\ tr_caller = "idle"
    /\ tr_log = <<>>

InitOuter ==
    /\ InitPipe /\ InitMain /\ InitStream /\ InitLife /\ InitModel
    /\ InitOverlap /\ InitTranscriber
    /\ speaker_id = FALSE

Init == InitAudio /\ InitFilter /\ InitOuter /\ enrolled = FALSE /\ available = TRUE

\* The frames the environment feeds: a silence-classified frame is the
\* silent frame and a speech-classified frame the speech frame; no speech is
\* fed once the buffer holds MaxBuf frames or the silence run exceeds MaxGap.
Feed(chunk, is_speech) ==
    IF is_speech
    THEN /\ chunk = SpeechFrame
         /\ Len(speech_buffer) < MaxBuf
         /\ silence_chunks <= MaxGap
    ELSE chunk = SilenceFrame

Step ==
    /\ \E chunk \in {SpeechFrame, SilenceFrame}, is_speech \in BOOLEAN :
          Feed(chunk, is_speech) /\ ProcessAudio(chunk, is_speech)
    /\ UNCHANGED <<filterVars, outerVars>>

Clock == Advance(1, MaxTime) /\ UNCHANGED <<filterVars, outerVars>>

Next == Step \/ Clock

Spec == Init /\ [][Next]_vars

----------------------------------------------------------------------------
(* Specification of the de-duplication: whole episodes (MinSpeechChunks    *)
(* equal speech frames, then silence), many of them.  Audio contents are   *)
(* named in the order of their first acceptance, and between two episodes  *)
(* a whole cooldown may pass.                                              *)

FeedDedup(chunk, is_speech) ==
    IF is_speech
    THEN /\ chunk \in DedupFrames
         /\ chunk[1] <= Len(speech_queue) + 1
         /\ silence_chunks = 0
         /\ speech_chunk_count < MinSpeechChunks
         /\ speech_buffer # <<>> => chunk = speech_buffer[1]
    ELSE /\ chunk = SilenceFrame
         /\ speech_chunk_count \in {0, MinSpeechChunks}

StepDedup ==
    /\ \E chunk \in DedupFrames \cup {SilenceFrame}, is_speech \in BOOLEAN :
          FeedDedup(chunk, is_speech) /\ ProcessAudio(chunk, is_speech)
    /\ UNCHANGED <<filterVars, outerVars>>

ClockDedup ==
    /\ speech_buffer = <<>>
    /\ Advance(CooldownTicks, DedupHorizon)
    /\ UNCHANGED <<filterVars, outerVars>>

NextDedup == StepDedup \/ ClockDedup

SpecDedup == Init /\ [][NextDedup]_vars

----------------------------------------------------------------------------
(* Specification of the speaker filter: chunks of either size, any answer  *)
(* of the embedding model, a reset at any time, with or without an         *)
(* enrolled speaker.                                                       *)

ProcessStep ==
    /\ chunks_fed < MaxChunks
    /\ \E n \in ChunkSizes, verdict \in VerdictsOf(available) :
          Process([id |-> chunks_fed + 1, n |-> n], verdict)
    /\ UNCHANGED <<audioVars, outerVars>>

ResetStep ==
    /\ Reset
    /\ UNCHANGED <<audioVars, outerVars>>

NextFilter == ProcessStep \/ ResetStep

InitSpeaker == InitAudio /\ InitFilter /\ InitOuter

SpecFilter == InitSpeaker /\ [][NextFilter]_vars

----------------------------------------------------------------------------
(* Specification of the resets.  The segmenter and the speaker filter      *)
(* share no state, so each is exercised while the other is still as        *)
(* constructed.  The filter is reset by reset(); the segmenter has no      *)
(* method of its own, its "Reset state" block is applied here to any state *)
(* the loop has reached.                                                   *)

ResetToIdle ==
    /\ ResetState
    /\ vad_resets' = VadReset(vad_resets)
    /\ episode' = <<>>
    /\ outcome' = "reset"
    /\ UNCHANGED <<cooldown_until, recent_hashes, speech_queue, now, last_audio,
                   emit_times>>

FilterUntouched == chunks_fed = 0 /\ last_call = NoCall
SegmenterUntouched == outcome = "none"

SegmenterStep == FilterUntouched /\ Step

SegmenterReset ==
    /\ FilterUntouched
    /\ vad_resets < MaxResets
    /\ ResetToIdle
    /\ UNCHANGED <<filterVars, outerVars>>

FilterProcess == SegmenterUntouched /\ ProcessStep

FilterReset == SegmenterUntouched /\ ResetStep

NextReset == SegmenterStep \/ SegmenterReset \/ FilterProcess \/ FilterReset

SpecReset == InitSpeaker /\ [][NextReset]_vars

----------------------------------------------------------------------------
(* Specification of the queues: the device callback enqueues frames, the   *)
(* consumer loop dequeues and segments them, the caller takes utterances   *)
(* with get_speech.  A frame carries the content the fingerprint sees at   *)
(* its even offsets and its arrival number at the odd ones; the VAD calls  *)
(* it speech iff the content is not silence.  The environment plays whole  *)
(* episodes: one or MinSpeechChunks speech frames of one content, then     *)
(* MaxSilenceChunks silence frames.                                       *)

Contents == {1, 2}
PipeHorizon == MaxEpisodes * CooldownTicks

Classify(chunk) == chunk[1] # 0

\* The frame the environment may play next as the arrival-th frame.
Plays(frame, arrival) ==
    /\ frame[2] = arrival
    /\ IF Classify(frame)
       THEN /\ frame[1] \in Contents
            /\ fed.played < MaxEpisodes
            /\ fed.silence = 0
            /\ fed.speech < MinSpeechChunks
            /\ fed.speech > 0 => frame[1] = fed.content
       ELSE /\ frame[1] = 0
            /\ fed.speech \in {ShortSpeech, MinSpeechChunks}

Played(frame) ==
    IF Classify(frame)
    THEN [fed EXCEPT !.content = frame[1], !.speech = @ + 1]
    ELSE IF fed.silence + 1 = MaxSilenceChunks
         THEN [NoEpisode EXCEPT !.played = fed.played + 1]
         ELSE [fed EXCEPT !.silence = @ + 1]

\* _audio_callback(indata, ...): self.audio_queue.put(indata.copy().flatten())
AudioCallback(indata) ==
    /\ audio_queue' = Append(audio_queue, indata)
    /\ captured' = captured + 1
    /\ invoked' = {"copy", "put"}

Capture ==
    /\ Len(audio_queue) < MaxQueue
    /\ \E content \in Contents \cup {0} :
          LET frame == <<content, captured + 1>>
          IN  /\ Plays(frame, captured + 1)
              /\ AudioCallback(frame)
              /\ fed' = Played(frame)
    /\ UNCHANGED <<audioVars, filterVars, mainVars, lifeVars, modelVars, overlapVars, transVars, chunk_queue, heard, delivered,
                   dequeued, got>>

\* Faulty variant: the newest frame taken first
ConsumeNewest ==
    /\ audio_queue # <<>>
    /\ LET chunk == audio_queue[Len(audio_queue)]
       IN  /\ audio_queue' = SubSeq(audio_queue, 1, Len(audio_queue) - 1)
           /\ got' = chunk
           /\ dequeued' = dequeued + 1
           /\ ProcessAudio(chunk, Classify(chunk))

\* One iteration of the consumer loop: chunk = self.audio_queue.get(...),
\* then the segmentation of the chunk.
Consume ==
    /\ audio_queue # <<>>
    /\ LET chunk == Head(audio_queue)
       IN  /\ audio_queue' = Tail(audio_queue)
           /\ got' = chunk
           /\ dequeued' = dequeued + 1
           /\ ProcessAudio(chunk, Classify(chunk))

ConsumeStep ==
    /\ Consume
    /\ UNCHANGED <<filterVars, mainVars, streamVars, lifeVars, modelVars, overlapVars, transVars, delivered, captured,
                   fed>>

\* Faulty variant: the utterance returned but left on the queue
GetSpeechPeek ==
    /\ speech_queue # <<>>
    /\ delivered' = Append(delivered, Head(speech_queue))
    /\ UNCHANGED speech_queue

\* get_speech(): the next utterance, if there is one
GetSpeech ==
    /\ speech_queue # <<>>
    /\ delivered' = Append(delivered, Head(speech_queue))
    /\ speech_queue' = Tail(speech_queue)

GetSpeechStep ==
    /\ GetSpeech
    /\ UNCHANGED <<speech_buffer, silence_chunks, speech_chunk_count, cooldown_until,
                   recent_hashes, now, vad_resets, episode, outcome, last_audio,
                   emit_times, filterVars, mainVars, streamVars, lifeVars, modelVars, overlapVars, transVars,
                   audio_queue, captured, dequeued, got, fed>>

ClockPipe ==
    /\ audio_queue = <<>>
    /\ fed.speech = 0
    /\ Advance(CooldownTicks, PipeHorizon)
    /\ UNCHANGED <<filterVars, outerVars>>

NextPipe == Capture \/ ConsumeStep \/ GetSpeechStep \/ ClockPipe

SpecPipe == Init /\ [][NextPipe]_vars

----------------------------------------------------------------------------
(* Yappatron._on_audio_chunk: the segmenter of the server, fed by the      *)
(* client over the socket, with the speech-boundary events, the pause flag *)
(* and the speaker check of a completed utterance.                         *)

\* Faulty variant: speech_start announced on every speech frame
StartsSpeakingAlways(speaking) == TRUE

\* if not self._is_speaking: ... emit_speech_start()
StartsSpeaking(speaking) == ~speaking

\* Faulty variant: no utterance handed to the transcriber
ProcessUtteranceNever(verdict) == FALSE

\* Faulty variant: every utterance handed to the transcriber
ProcessUtteranceAlways(verdict) == TRUE

\* _process_utterance(audio): TRUE iff the utterance is handed to the
\* transcriber.
ProcessUtterance(verdict) ==
    IF speaker_id /\ enrolled THEN Verify(enrolled, verdict)[1] ELSE TRUE

\* Faulty variant: the pause flag ignored
IsPausedNever(flag) == FALSE

\* if self._paused: return
IsPaused(flag) == flag

\* The verify() call that _process_utterance makes, if it makes one
VerifyCall(verdict) ==
    IF speaker_id /\ enrolled
    THEN [called |-> TRUE, verdict |-> verdict,
          is_match |-> Verify(enrolled, verdict)[1],
          score |-> Verify(enrolled, verdict)[2]]
    ELSE NoVerify

OnAudioChunk(audio, is_speech, verdict) ==
    IF IsPaused(paused)
    THEN /\ outcome' = "paused"
         /\ last_verify' = NoVerify
         /\ UNCHANGED <<speech_buffer, silence_chunks, speech_chunk_count,
                        cooldown_until, vad_resets, episode, last_audio,
                        is_speaking, events, transcribed>>
    ELSE IF CooldownActive(now)
    THEN /\ outcome' = "dropped"
         /\ last_verify' = NoVerify
         /\ UNCHANGED <<speech_buffer, silence_chunks, speech_chunk_count,
                        cooldown_until, vad_resets, episode, last_audio,
                        is_speaking, events, transcribed>>
    ELSE IF is_speech
    THEN /\ is_speaking' = TRUE
         /\ events' = IF StartsSpeaking(is_speaking)
                      THEN Append(events, "speech_start") ELSE events
         /\ speech_buffer' = Append(speech_buffer, audio)
         /\ speech_chunk_count' = speech_chunk_count + 1
         /\ silence_chunks' = 0
         /\ vad_resets' = 0
         /\ episode' = Append(episode, <<audio, TRUE>>)
         /\ outcome' = "speech"
         /\ last_verify' = NoVerify
         /\ UNCHANGED <<cooldown_until, last_audio, transcribed>>
    ELSE IF speech_buffer = <<>>
    THEN /\ vad_resets' = 0
         /\ outcome' = "idle"
         /\ last_verify' = NoVerify
         /\ UNCHANGED <<speech_buffer, silence_chunks, speech_chunk_count,
                        cooldown_until, episode, last_audio,
                        is_speaking, events, transcribed>>
    ELSE LET silence == silence_chunks + 1
             buffer == IF KeepsTrailing(silence)
                       THEN Append(speech_buffer, audio) ELSE speech_buffer
             valid == EnoughSpeech(speech_chunk_count)
             passes == ProcessUtterance(verdict)
         IN  IF EndOfUtterance(silence)
             THEN /\ transcribed' = IF valid /\ passes
                                    THEN Append(transcribed, buffer) ELSE transcribed
                  /\ cooldown_until' = IF valid THEN ArmCooldown(now)
                                       ELSE cooldown_until
                  /\ ResetState
                  /\ is_speaking' = FALSE
                  /\ vad_resets' = VadReset(0)
                  /\ events' = Append(events, "speech_end")
                  /\ episode' = <<>>
                  /\ last_audio' = IF valid THEN buffer ELSE last_audio
                  /\ outcome' = IF ~valid THEN "short"
                                ELSE IF passes THEN "emitted" ELSE "rejected"
                  /\ last_verify' = IF valid THEN VerifyCall(verdict) ELSE NoVerify
             ELSE /\ speech_buffer' = buffer
                  /\ silence_chunks' = silence
                  /\ vad_resets' = 0
                  /\ episode' = Append(episode, <<audio, FALSE>>)
                  /\ outcome' = "silence"
                  /\ last_verify' = NoVerify
                  /\ UNCHANGED <<speech_chunk_count, cooldown_until, last_audio,
                                 is_speaking, events, transcribed>>

\* _handle_pause / _handle_resume
HandlePause == paused' = TRUE
HandleResume == paused' = FALSE

\* The frames the client sends: as for the segmenter, with pauses in the
\* speech of at most MainGap frames.
FeedMain(chunk, is_speech) ==
    /\ Feed(chunk, is_speech)
    /\ is_speech => silence_chunks <= MainGap

\* The speaker filter, which the server does not use, apart from the record
\* of the last verify() call
filterUnused == <<enrolled, available, audio_buffer, buffer_samples, last_verified,
                  samples_since_verification, chunks_fed, min_reached, last_call,
                  abandoned, ever_verified>>

mainUnchanged == <<recent_hashes, speech_queue, emit_times, filterUnused, pipeVars,
                   streamVars, lifeVars, modelVars, overlapVars, transVars, speaker_id>>

ChunkStep ==
    /\ \E chunk \in {SpeechFrame, SilenceFrame}, is_speech \in BOOLEAN,
          verdict \in VerdictsOf(available) :
          /\ FeedMain(chunk, is_speech)
          /\ (is_speech /\ ~is_speaking /\ ~paused) => Len(events) < MaxEvents
          /\ OnAudioChunk(chunk, is_speech, verdict)
    /\ UNCHANGED <<now, paused, mainUnchanged>>

PauseStep ==
    /\ ~paused
    /\ HandlePause
    /\ UNCHANGED <<audioVars, is_speaking, events, transcribed, last_verify,
                   mainUnchanged>>

ResumeStep ==
    /\ paused
    /\ HandleResume
    /\ UNCHANGED <<audioVars, is_speaking, events, transcribed, last_verify,
                   mainUnchanged>>

\* The clock of the server runs over one cooldown.
MainHorizon == CooldownTicks

ClockMain ==
    /\ Advance(1, MainHorizon)
    /\ UNCHANGED <<filterVars, outerVars>>

NextMain == ChunkStep \/ PauseStep \/ ResumeStep \/ ClockMain

InitYappatron ==
    /\ InitAudio
    /\ InitFilter
    /\ InitPipe
    /\ InitMain
    /\ InitStream
    /\ InitLife
    /\ InitModel
    /\ InitOverlap
    /\ InitTranscriber
    /\ available = TRUE

SpecMain == InitYappatron /\ [][NextMain]_vars

----------------------------------------------------------------------------
(* StreamingAudioCapture: the device callback classifies the frame itself  *)
(* and passes speech (with a little trailing silence) to chunk_queue.      *)

\* self._silence_chunks <= 5: the silence frame is still passed on
StreamKeeps(silence) == silence <= StreamTrailing

\* self._silence_chunks >= self._max_silence_chunks
StreamEnds(silence) == silence >= StreamMaxSilence

\* The class of the frame the callback was given and the number of silence
\* frames in a row it ends (counted to StreamMaxSilence, speaking or not).
Hear(is_speech) ==
    [is_speech |-> is_speech,
     run |-> IF is_speech THEN 0
             ELSE IF heard.run < StreamMaxSilence THEN heard.run + 1 ELSE heard.run]

StreamingAudioCallback(indata, is_speech) ==
    LET silence == silence_chunks + 1
        starts == is_speech /\ ~is_speaking
        ends == ~is_speech /\ is_speaking /\ StreamEnds(silence)
        puts == is_speech \/ (is_speaking /\ StreamKeeps(silence))
    IN  /\ invoked' = {"copy", "vad.is_speech"}
                       \cup (IF starts THEN {"on_speech_start"} ELSE {})
                       \cup (IF puts THEN {"put"} ELSE {})
                       \cup (IF ends THEN {"vad.reset", "on_speech_end"} ELSE {})
        /\ chunk_queue' = IF puts THEN Append(chunk_queue, indata) ELSE chunk_queue
        /\ is_speaking' = IF is_speech THEN TRUE ELSE IF ends THEN FALSE ELSE is_speaking
        /\ silence_chunks' = IF is_speech \/ ends THEN 0
                             ELSE IF is_speaking THEN silence ELSE silence_chunks
        /\ vad_resets' = IF ends THEN VadReset(0) ELSE 0
        /\ events' = IF starts THEN Append(events, "speech_start")
                      ELSE IF ends THEN Append(events, "speech_end") ELSE events
        /\ heard' = Hear(is_speech)

\* get_chunk(): the next chunk, if there is one
GetChunk ==
    /\ chunk_queue # <<>>
    /\ chunk_queue' = Tail(chunk_queue)

streamUnchanged == <<speech_buffer, speech_chunk_count, cooldown_until, recent_hashes,
                     speech_queue, now, episode, outcome, last_audio, emit_times,
                     filterVars, pipeVars, lifeVars, modelVars, overlapVars, transVars, paused, speaker_id, transcribed>>

StreamStep ==
    /\ Len(chunk_queue) < MaxStream
    /\ \E chunk \in {SpeechFrame, SilenceFrame} :
          /\ (Classify(chunk) /\ ~is_speaking) => Len(events) < MaxEvents
          /\ StreamingAudioCallback(chunk, Classify(chunk))
    /\ UNCHANGED streamUnchanged

GetChunkStep ==
    /\ GetChunk
    /\ UNCHANGED <<audioVars, filterVars, pipeVars, mainVars, lifeVars, modelVars, overlapVars, transVars, invoked, heard>>

\* Both capture paths: the callback of AudioCapture and that of
\* StreamingAudioCapture, each on its own object.
NextStream == Capture \/ StreamStep \/ GetChunkStep

SpecStream == Init /\ [][NextStream]_vars

----------------------------------------------------------------------------
(* AudioCapture.start and stop, and the consumer threads they create.  A   *)
(* thread is at the head of its loop ("loop"), in audio_queue.get ("get"), *)
(* between the dequeue and the end of the iteration ("vad"), or has left   *)
(* the loop ("done").  The caller of start and stop is one thread.         *)

Threads == 1..MaxStarts

\* Faulty variant: a loop that never looks at the flag
KeepsRunningAlways(flag) == TRUE

\* while self._running:
KeepsRunning(flag) == flag

Alive(t) == threads[t].pc \in {"loop", "get", "vad"}

AllExited == \A t \in Threads : ~Alive(t)

\* The thread has ended: it left the loop, or an exception left _process_audio
Exited(t) == threads[t].pc \in {"done", "raised"}

lifeUnchangedByThread == <<filterVars, mainVars, streamVars, modelVars, overlapVars,
                           transVars, running, stream,
                           processor_thread, caller, delivered, captured, fed>>

LoopCheck(t) ==
    /\ threads[t].pc = "loop"
    /\ threads' = [threads EXCEPT ![t].pc =
                       IF KeepsRunning(running) THEN "get" ELSE "done"]
    /\ UNCHANGED <<audioVars, audio_queue, dequeued, got, stale, lifeUnchangedByThread>>

\* chunk = self.audio_queue.get(timeout=0.1), or queue.Empty and continue
Dequeue(t) ==
    /\ threads[t].pc = "get"
    /\ IF audio_queue = <<>>
       THEN /\ threads' = [threads EXCEPT ![t].pc = "loop"]
            /\ UNCHANGED <<audio_queue, dequeued, got>>
       ELSE /\ threads' = [threads EXCEPT ![t] = [pc |-> "vad", chunk |-> Head(audio_queue)]]
            /\ audio_queue' = Tail(audio_queue)
            /\ dequeued' = dequeued + 1
            /\ got' = Head(audio_queue)
    /\ UNCHANGED <<audioVars, stale, lifeUnchangedByThread>>

\* The rest of the iteration: cooldown test, VAD, segmentation.
Segment(t) ==
    /\ threads[t].pc = "vad"
    /\ ProcessAudio(threads[t].chunk, Classify(threads[t].chunk))
    /\ threads' = [threads EXCEPT ![t] = [pc |-> "loop", chunk |-> NoFrame]]
    /\ stale' = IF speech_buffer' = <<>> THEN NoStale ELSE stale
    /\ UNCHANGED <<audio_queue, dequeued, got, lifeUnchangedByThread>>

ThreadStep(t) == LoopCheck(t) \/ Dequeue(t) \/ Segment(t)

lifeUnchangedByCaller == <<audioVars, filterVars, pipeVars, mainVars, streamVars,
                           modelVars, overlapVars, transVars>>

\* start(), when not running already
Start ==
    /\ caller = "idle"
    /\ ~running
    /\ \E t \in Threads :
          /\ threads[t].pc = "none"
          /\ \A u \in Threads : u < t => threads[u].pc # "none"
          /\ threads' = [threads EXCEPT ![t].pc = "loop"]
          /\ processor_thread' = t
    /\ running' = TRUE
    /\ stream' = TRUE
    /\ stale' = [stale EXCEPT !.restarted = (stale.frames > 0)]
    /\ UNCHANGED <<caller, lifeUnchangedByCaller>>

\* stop(), up to the join
Stop ==
    /\ caller = "idle"
    /\ running
    /\ running' = FALSE
    /\ stream' = FALSE
    /\ caller' = IF processor_thread = 0 THEN "idle" ELSE "joining"
    /\ stale' = [frames |-> Len(speech_buffer), restarted |-> FALSE]
    /\ UNCHANGED <<processor_thread, threads, lifeUnchangedByCaller>>

\* The join can time out only on a thread that is inside the VAD call:
\* every other wait of the loop is bounded by the 0.1 s poll.
JoinTimesOut(t) == threads[t].pc = "vad" /\ ~CooldownActive(now)

\* self._processor_thread.join(timeout=1.0); self._processor_thread = None
Join ==
    /\ caller = "joining"
    /\ Exited(processor_thread) \/ JoinTimesOut(processor_thread)
    /\ processor_thread' = 0
    /\ caller' = "idle"
    /\ UNCHANGED <<running, stream, threads, stale, lifeUnchangedByCaller>>

\* The device calls the callback only while the stream is open.  The
\* environment plays one episode, of the first content, and once two
\* consumers are alive it plays no more: they are followed until the queue
\* is drained.
LifeCapture ==
    /\ stream
    /\ fed.played = 0
    /\ Cardinality({t \in Threads : Alive(t)}) <= 1
    /\ Capture
    /\ audio_queue'[Len(audio_queue')][1] \in {0, 1}

NextLife == (\E t \in Threads : ThreadStep(t)) \/ Start \/ Stop \/ Join \/ LifeCapture

SpecLife == Init /\ [][NextLife]_vars

\* Every thread gets to run, and a join returns.
SpecLifeFair ==
    SpecLife /\ (\A t \in Threads : WF_vars(ThreadStep(t))) /\ WF_vars(Join)

\* The model-backed calls of an iteration can fail.  Nothing in
\* _process_audio catches an exception of self.vad.is_speech: it leaves the
\* loop and ends the thread, with the frame dropped and the state as it was.
IsSpeechRaises(t) ==
    /\ threads[t].pc = "vad"
    /\ ~CooldownActive(now)
    /\ threads' = [threads EXCEPT ![t] = [pc |-> "raised", chunk |-> NoFrame]]
    /\ UNCHANGED <<audioVars, audio_queue, dequeued, got, stale, lifeUnchangedByThread>>

\* Nor an exception of self.vad.reset(), the last statement of an
\* iteration that completes an utterance: the state is reset already.
ResetRaises(t) ==
    /\ threads[t].pc = "vad"
    /\ ProcessAudio(threads[t].chunk, Classify(threads[t].chunk))
    /\ vad_resets' # vad_resets
    /\ threads' = [threads EXCEPT ![t] = [pc |-> "raised", chunk |-> NoFrame]]
    /\ stale' = IF speech_buffer' = <<>> THEN NoStale ELSE stale
    /\ UNCHANGED <<audio_queue, dequeued, got, lifeUnchangedByThread>>

NextFault == NextLife \/ (\E t \in Threads : IsSpeechRaises(t) \/ ResetRaises(t))

SpecFault == Init /\ [][NextFault]_vars

----------------------------------------------------------------------------
(* SpeakerVerificationFilter.process on a stream of equal frames of        *)
(* Blocksize samples, with a record of what became of every frame: the     *)
(* audio of each call that returned audio, and the frames dropped by a     *)
(* rejection or by reset().  One reset is followed, made before any        *)
(* rejection.                                                              *)

Ids(audio) == [i \in 1..Len(audio) |-> audio[i].id]
IdSet(audio) == {audio[i].id : i \in 1..Len(audio)}

overlapUnchanged == <<audioVars, pipeVars, mainVars, streamVars, lifeVars, modelVars,
                      transVars>>

OverlapProcess ==
    /\ chunks_fed < MaxFrames
    /\ \E verdict \in VerdictsOf(available) :
          Process([id |-> chunks_fed + 1, n |-> Blocksize], verdict)
    /\ returned_log' = IF last_call'.has_audio
                       THEN Append(returned_log, Ids(last_call'.audio))
                       ELSE returned_log
    /\ cleared' = IF audio_buffer' = <<>>
                  THEN cleared \cup IdSet(audio_buffer) \cup {chunks_fed + 1}
                  ELSE cleared
    /\ UNCHANGED overlapUnchanged

OverlapReset ==
    /\ cleared = {}
    /\ audio_buffer # <<>>
    /\ Reset
    /\ cleared' = IdSet(audio_buffer)
    /\ UNCHANGED <<returned_log, overlapUnchanged>>

NextOverlap == OverlapProcess \/ OverlapReset

SpecOverlap == InitSpeaker /\ [][NextOverlap]_vars

----------------------------------------------------------------------------
(* RealtimeTranscriber: start() and stop() on one thread, the threads that *)
(* run _process_loop, and transcribe_utterance() feeding the queue.  Each  *)
(* entry of the queue carries a serial number; tr_log records, in order,   *)
(* every entry dropped and every transcription begun and ended.            *)

Workers == 1..MaxStarts

\* What transcribe_utterance may be given: None, an utterance one sample
\* short of the minimum, or one of the minimum length.
Entries(id) ==
    {[id |-> id, n |-> 0, none |-> TRUE]}
    \cup {[id |-> id, n |-> n, none |-> FALSE] : n \in {MinUtterance - 1, MinUtterance}}

Dequeued == {i \in 1..Len(tr_log) : tr_log[i].op \in {"drop", "begin"}}

Queued == Len(utterance_queue) + Cardinality(Dequeued)

\* audio is None, or len(audio) < 4800
Skipped(audio) == audio.none \/ audio.n < MinUtterance

transUnchanged == <<audioVars, filterVars, pipeVars, mainVars, streamVars, lifeVars,
                    modelVars, overlapVars>>

\* transcribe_utterance(audio): self._utterance_queue.put(audio)
TranscribeUtterance ==
    /\ Queued < MaxUtterances
    /\ \E audio \in Entries(Queued + 1) :
          utterance_queue' = Append(utterance_queue, audio)
    /\ UNCHANGED <<tr_running, tr_thread, tr_workers, tr_caller, tr_log, transUnchanged>>

\* while self._running:
LoopTest(w) ==
    /\ tr_workers[w].pc = "loop"
    /\ tr_workers' = [tr_workers EXCEPT ![w].pc = IF tr_running THEN "get" ELSE "done"]
    /\ UNCHANGED <<utterance_queue, tr_log>>

\* self._utterance_queue.get(timeout=0.1) on an empty queue: queue.Empty, continue
GetEmpty(w) ==
    /\ tr_workers[w].pc = "get"
    /\ utterance_queue = <<>>
    /\ tr_workers' = [tr_workers EXCEPT ![w].pc = "loop"]
    /\ UNCHANGED <<utterance_queue, tr_log>>

\* get() returns the head of the queue; None and short audio: continue;
\* anything else enters self.transcriber.transcribe(audio)
Get(w) ==
    /\ tr_workers[w].pc = "get"
    /\ utterance_queue # <<>>
    /\ LET audio == Head(utterance_queue)
       IN  /\ utterance_queue' = Tail(utterance_queue)
           /\ IF Skipped(audio)
              THEN /\ tr_workers' = [tr_workers EXCEPT ![w].pc = "loop"]
                   /\ tr_log' = Append(tr_log, [op |-> "drop", audio |-> audio, w |-> w])
              ELSE /\ tr_workers' = [tr_workers EXCEPT ![w] =
                                        [pc |-> "transcribe", audio |-> audio]]
                   /\ tr_log' = Append(tr_log, [op |-> "begin", audio |-> audio, w |-> w])

\* transcribe() returns; the callbacks are called and the loop goes round
Transcribed(w) ==
    /\ tr_workers[w].pc = "transcribe"
    /\ tr_log' = Append(tr_log, [op |-> "end", audio |-> tr_workers[w].audio, w |-> w])
    /\ tr_workers' = [tr_workers EXCEPT ![w] = [pc |-> "loop", audio |-> NoUtterance]]
    /\ UNCHANGED utterance_queue

\* _process_loop, one step of the thread w
ProcessLoop(w) ==
    /\ \/ LoopTest(w)
       \/ GetEmpty(w)
       \/ Get(w)
       \/ Transcribed(w)
    /\ UNCHANGED <<tr_running, tr_thread, tr_caller, transUnchanged>>

\* start(): returns at once if running, else sets the flag and starts a thread
TrStart ==
    /\ tr_caller = "idle"
    /\ ~tr_running
    /\ \E w \in Workers :
          /\ tr_workers[w].pc = "none"
          /\ \A u \in Workers : u < w => tr_workers[u].pc # "none"
          /\ tr_workers' = [tr_workers EXCEPT ![w].pc = "loop"]
          /\ tr_thread' = w
    /\ tr_running' = TRUE
    /\ UNCHANGED <<utterance_queue, tr_caller, tr_log, transUnchanged>>

\* stop(), up to the join
TrStop ==
    /\ tr_caller = "idle"
    /\ tr_running
    /\ tr_running' = FALSE
    /\ tr_caller' = IF tr_thread = 0 THEN "idle" ELSE "joining"
    /\ UNCHANGED <<utterance_queue, tr_thread, tr_workers, tr_log, transUnchanged>>

\* The join can time out only on a thread that is inside transcribe():
\* every other wait of the loop is bounded by the 0.1 s poll.
TrJoinTimesOut(w) == tr_workers[w].pc = "transcribe"

\* self._thread.join(timeout=2.0); self._thread = None
TrJoin ==
    /\ tr_caller = "joining"
    /\ tr_workers[tr_thread].pc = "done" \/ TrJoinTimesOut(tr_thread)
    /\ tr_thread' = 0
    /\ tr_caller' = "idle"
    /\ UNCHANGED <<utterance_queue, tr_running, tr_workers, tr_log, transUnchanged>>

NextTranscriber ==
    \/ \E w \in Workers : ProcessLoop(w)
    \/ TranscribeUtterance
    \/ TrStart
    \/ TrStop
    \/ TrJoin

SpecTranscriber == Init /\ [][NextTranscriber]_vars

----------------------------------------------------------------------------
(* AudioCapture._process_audio and Yappatron._on_audio_chunk side by side: *)
(* both are run on every frame, from the same buffer, counters, cooldown   *)
(* and clock.  A joint step exists only if the two agree on the state they *)
(* leave (buffer, counters, cooldown, VAD resets, and what the frame       *)
(* did); AudioCapture puts its utterances on speech_queue, Yappatron hands *)
(* its own to the transcriber.  Speaker verification is disabled and       *)
(* nothing pauses; each utterance is spoken with a content of its own, so  *)
(* no two completed utterances have the same fingerprint.                  *)

FeedBoth(chunk, is_speech) ==
    IF is_speech
    THEN /\ chunk = <<Len(speech_queue) + 1, 1>>
         /\ Len(speech_buffer) < MaxBuf
         /\ silence_chunks <= MaxGap
         /\ ~is_speaking => Len(events) < MaxEvents
    ELSE chunk = SilenceFrame

BothFrames == {<<c, 1>> : c \in 1..(MaxTime + 2)} \cup {SilenceFrame}

Both(chunk, is_speech) ==
    /\ ProcessAudio(chunk, is_speech)
    /\ \E verdict \in VerdictsOf(available) : OnAudioChunk(chunk, is_speech, verdict)
    /\ UNCHANGED <<paused, speaker_id, filterVars, pipeVars, streamVars, lifeVars,
                   modelVars, overlapVars, transVars>>

BothStep ==
    \E chunk \in BothFrames, is_speech \in BOOLEAN :
        FeedBoth(chunk, is_speech) /\ Both(chunk, is_speech)

NextBoth == BothStep \/ Clock

\* Speaker verification is left out: no identifier, the model file in place
InitBoth == InitSpeaker /\ available = TRUE

SpecBoth == InitBoth /\ [][NextBoth]_vars

----------------------------------------------------------------------------
(* SpeakerIdentifier._ensure_model: the lazy, guarded load of the speaker  *)
(* model.  Each calling thread is at one of: outside the call ("idle"),    *)
(* before the outer test ("check"), waiting for the lock ("acquire"),      *)
(* holding it before the inner test ("recheck"), before the import         *)
(* ("import"), or inside from_hparams ("load").  A call gives back         *)
(* "true", "false", or "raised" when from_hparams raised out of it.        *)

Callers == 1..NumCallers

\* Faulty variant: a lock that excludes nobody
LockFreeAlways(holder) == TRUE

\* with self._model_lock: the lock can be taken when nobody holds it
LockFree(holder) == holder = 0

\* if self._model is None:
Unloaded(m) == m = "none"

Returns(c, value) == [callers EXCEPT ![c].pc = "idle", ![c].result = value]

modelUnchanged == <<audioVars, filterVars, pipeVars, mainVars, streamVars, lifeVars,
                    overlapVars, transVars>>

\* A thread calls _ensure_model()
CallEnsure(c) ==
    /\ callers[c].pc = "idle"
    /\ callers[c].calls < MaxCalls
    /\ callers' = [callers EXCEPT ![c] =
                      [pc |-> "check", calls |-> @.calls + 1, result |-> "none"]]
    /\ UNCHANGED <<model, model_lock, loads, modelUnchanged>>

\* The outer test, without the lock; return True when the model is set
OuterCheck(c) ==
    /\ callers[c].pc = "check"
    /\ callers' = IF Unloaded(model)
                  THEN [callers EXCEPT ![c].pc = "acquire"]
                  ELSE Returns(c, "true")
    /\ UNCHANGED <<model, model_lock, loads, modelUnchanged>>

Acquire(c) ==
    /\ callers[c].pc = "acquire"
    /\ LockFree(model_lock)
    /\ model_lock' = c
    /\ callers' = [callers EXCEPT ![c].pc = "recheck"]
    /\ UNCHANGED <<model, loads, modelUnchanged>>

\* The inner test, under the lock; the lock is released on the way out
InnerCheck(c) ==
    /\ callers[c].pc = "recheck"
    /\ IF Unloaded(model)
       THEN /\ callers' = [callers EXCEPT ![c].pc = "import"]
            /\ UNCHANGED model_lock
       ELSE /\ callers' = Returns(c, "true")
            /\ model_lock' = 0
    /\ UNCHANGED <<model, loads, modelUnchanged>>

\* SR = _get_speaker_recognition(); return False when it is None;
\* otherwise from_hparams is entered
Import(c) ==
    /\ callers[c].pc = "import"
    /\ IF available
       THEN /\ callers' = [callers EXCEPT ![c].pc = "load"]
            /\ loads' = [loads EXCEPT !.started = @ + 1]
            /\ UNCHANGED model_lock
       ELSE /\ callers' = Returns(c, "false")
            /\ model_lock' = 0
            /\ UNCHANGED loads
    /\ UNCHANGED <<model, modelUnchanged>>

\* from_hparams returns and its result is assigned to self._model, or it
\* raises and the exception leaves the call; either way the lock is
\* released.
Load(c) ==
    /\ callers[c].pc = "load"
    /\ \E loaded \in BOOLEAN :
          IF loaded
          THEN /\ model' = "loaded"
               /\ loads' = [loads EXCEPT !.done = @ + 1]
               /\ callers' = Returns(c, "true")
          ELSE /\ callers' = Returns(c, "raised")
               /\ UNCHANGED <<model, loads>>
    /\ model_lock' = 0
    /\ UNCHANGED modelUnchanged

EnsureModel(c) ==
    CallEnsure(c) \/ OuterCheck(c) \/ Acquire(c) \/ InnerCheck(c) \/ Import(c) \/ Load(c)

NextModel == \E c \in Callers : EnsureModel(c)

InitIdentifier == InitAudio /\ InitFilter /\ InitOuter /\ enrolled = FALSE

SpecModel == InitIdentifier /\ [][NextModel]_vars

----------------------------------------------------------------------------
(* Vocabulary of the claims                                                *)

\* The segmenter state of the design, read off the two counters.
SegmenterState ==
    IF speech_chunk_count = 0 /\ silence_chunks = 0 THEN "Idle"
    ELSE IF silence_chunks = 0 THEN "Speaking" ELSE "TrailingSilence"

Idle == speech_buffer = <<>> /\ speech_chunk_count = 0 /\ silence_chunks = 0

\* Speech-classified frames admitted since the last Idle state.
SpokenInEpisode == Cardinality({i \in 1..Len(episode) : episode[i][2]})

\* A loop iteration that scores its frame: the clock stands still and the
\* cooldown is over.  It is used in action formulas, where a stuttering
\* step never counts.
Scored == now' = now /\ ~(now < cooldown_until)

\* The iteration returns the segmenter to Idle: an utterance is completed
\* (emitted or rejected as a duplicate) or discarded.
ReturnsToIdle == speech_buffer # <<>> /\ speech_buffer' = <<>>

Emits == speech_queue' # speech_queue

FramesOf(e, n) == [i \in 1..n |-> e[i][1]]

\* The episode so far is MinSpeechChunks speech frames followed by
\* MaxSilenceChunks - 1 silence frames.
ScenarioA(e) ==
    /\ Len(e) = MinSpeechChunks + MaxSilenceChunks - 1
    /\ \A i \in 1..Len(e) : e[i][2] <=> i <= MinSpeechChunks

ScenarioAPrefix(e) ==
    /\ Len(e) < MinSpeechChunks + MaxSilenceChunks
    /\ \A i \in 1..Len(e) : e[i][2] <=> i <= MinSpeechChunks

\* The time of the last speech_queue.put, when the cooldown was armed.
LastArmed == emit_times[Len(emit_times)]

\* audio is among the last MaxRecent accepted utterances.
AcceptedRecently(audio) ==
    \E i \in 1..Len(speech_queue) :
        /\ i > Len(speech_queue) - MaxRecent
        /\ speech_queue[i] = audio

----------------------------------------------------------------------------
(* C1 as stated: a frame step outside cooldown emits an utterance iff it   *)
(* ends an episode (the silence count reaches MaxSilenceChunks) whose      *)
(* speech-classified frames number at least MinSpeechChunks.  Refuted by   *)
(* an episode with enough speech whose fingerprint is a recent one.        *)
C1_EmittedIffEnoughSpeech ==
    [][Scored =>
        (Emits <=> (ReturnsToIdle /\ SpokenInEpisode >= MinSpeechChunks))]_vars

(* C1 amended: a frame step outside cooldown emits an utterance iff it     *)
(* ends an episode with at least MinSpeechChunks speech frames whose       *)
(* fingerprint is not among the recent fingerprints; the emitted utterance *)
(* is the buffered audio; an episode ends exactly when the silence count   *)
(* reaches MaxSilenceChunks, and then the state is Idle, emitted or not.   *)
C1_EmittedIffEnoughSpeechAndFresh ==
    [][Scored =>
        /\ Emits <=> /\ ReturnsToIdle
                     /\ SpokenInEpisode >= MinSpeechChunks
                     /\ ~IsDuplicate(HashAudio(speech_buffer), recent_hashes)
        /\ Emits => speech_queue' = Append(speech_queue, speech_buffer)
        /\ ReturnsToIdle <=> (silence_chunks = MaxSilenceChunks - 1 /\ outcome' # "speech")
        /\ ReturnsToIdle => Idle'
      ]_vars

\* Both ways out of an episode have been taken: an episode too short was
\* discarded after an utterance had been emitted.
C1_Witness ==
    /\ outcome = "short"
    /\ Len(speech_queue) = 1
    /\ Idle

----------------------------------------------------------------------------
(* C2: from Idle with an empty fingerprint list and no cooldown, 8 speech  *)
(* frames followed by 25 silence frames emit exactly one utterance, the 8  *)
(* speech frames and the first 3 silence frames in arrival order, and      *)
(* leave the segmenter Idle; none of the first 32 frames emits.            *)
C2_ScenarioA ==
    [][(Scored /\ recent_hashes = <<>> /\ speech_queue = <<>>) =>
        /\ (ScenarioA(episode) /\ outcome' # "speech") =>
              /\ speech_queue' =
                    <<FramesOf(episode, MinSpeechChunks + TrailingSilence)>>
              /\ Idle'
        /\ (ScenarioAPrefix(episode) /\ ~(ScenarioA(episode) /\ outcome' # "speech")) =>
              speech_queue' = <<>>
      ]_vars

\* The scenario has run from the initial state: one utterance of 8 + 3
\* frames is queued and nothing else has happened.
C2_Witness ==
    /\ outcome = "emitted"
    /\ speech_queue = <<last_audio>>
    /\ Len(last_audio) = MinSpeechChunks + TrailingSilence
    /\ \A i \in 1..Len(last_audio) : (last_audio[i] = SpeechFrame) <=> i <= MinSpeechChunks
    /\ Idle

----------------------------------------------------------------------------
(* C3: every return to Idle (emission, duplicate, discard) leaves exactly  *)
(* one vad.reset() call since the last scored frame, and that count stays  *)
(* until the next frame is scored.                                         *)
C3_ResetOncePerReturn ==
    [][/\ ReturnsToIdle => vad_resets' = 1
       /\ ~Scored => vad_resets' = vad_resets
       /\ (Scored /\ ~ReturnsToIdle) => vad_resets' = 0
      ]_vars

\* A completed utterance was rejected as a duplicate and the VAD was reset.
C3_Witness ==
    /\ outcome = "duplicate"
    /\ vad_resets = 1
    /\ Idle

----------------------------------------------------------------------------
(* C4: between frame steps the buffer is empty iff the state is Idle, in   *)
(* Idle both counters are zero, and Speaking / TrailingSilence have a      *)
(* non-empty buffer that holds every counted speech frame.                 *)
C4_SegmenterInvariant ==
    /\ (SegmenterState = "Idle") <=> (speech_buffer = <<>>)
    /\ speech_buffer = <<>> => (speech_chunk_count = 0 /\ silence_chunks = 0)
    /\ SegmenterState # "Idle" =>
          /\ speech_chunk_count >= 1
          /\ Len(speech_buffer) >= speech_chunk_count

\* Back in Idle after an episode was discarded.
C4_Witness ==
    /\ Idle
    /\ outcome = "short"
    /\ speech_queue = <<>>

----------------------------------------------------------------------------
(* C5: the recent-fingerprint list never holds more than MaxRecent         *)
(* fingerprints; a new fingerprint is appended, and when the list is full  *)
(* the oldest one is evicted.                                              *)
C5_RecentBounded ==
    [][/\ Len(recent_hashes) <= MaxRecent
       /\ Len(recent_hashes') <= MaxRecent
       /\ recent_hashes' # recent_hashes =>
             recent_hashes' =
                 Append(IF Len(recent_hashes) = MaxRecent
                        THEN Tail(recent_hashes) ELSE recent_hashes,
                        HashAudio(speech_buffer))
      ]_vars

\* A sixth utterance has been accepted and the first fingerprint is gone.
C5_Witness ==
    /\ Len(speech_queue) = MaxRecent + 1
    /\ Len(recent_hashes) = MaxRecent
    /\ \A i \in 1..MaxRecent : recent_hashes[i] # HashAudio(speech_queue[1])

----------------------------------------------------------------------------
(* C6: an utterance whose audio equals that of one of the last MaxRecent   *)
(* accepted utterances (fewer than MaxRecent accepted in between) is       *)
(* rejected when it completes, necessarily after the cooldown has expired: *)
(* nothing is emitted, and the fingerprints and the cooldown stay.         *)
C6_IdenticalAudioRejected ==
    [][(Scored /\ ReturnsToIdle /\ AcceptedRecently(speech_buffer)) =>
          /\ outcome' = "duplicate"
          /\ UNCHANGED <<speech_queue, recent_hashes, cooldown_until, emit_times>>
      ]_vars

\* The first of MaxRecent accepted utterances was fed again and rejected,
\* after the cooldown of the last emission had expired.
C6_Witness ==
    /\ outcome = "duplicate"
    /\ Len(speech_queue) = MaxRecent
    /\ last_audio = speech_queue[1]
    /\ now >= cooldown_until

----------------------------------------------------------------------------
(* C7: once the cooldown is armed at time a, the cooldown test is true at  *)
(* every time in [a, a + CooldownTicks) and false at every later time,     *)
(* until it is armed again.                                                *)
C7_CooldownWindow ==
    emit_times # <<>> =>
        \A t \in 0..(MaxTime + CooldownTicks + 1) :
            /\ (LastArmed <= t /\ t < LastArmed + CooldownTicks) => CooldownActive(t)
            /\ t >= LastArmed + CooldownTicks => ~CooldownActive(t)

\* A frame is admitted at the very instant the cooldown ends.
C7_Witness ==
    /\ emit_times # <<>>
    /\ now = LastArmed + CooldownTicks
    /\ outcome = "speech"

----------------------------------------------------------------------------
(* C8: a frame dequeued while the cooldown is active changes neither the   *)
(* segmenter, the VAD, the fingerprints nor the queue, and two consecutive *)
(* emissions are at least CooldownTicks apart.                             *)
C8_DroppedInCooldown ==
    [][/\ (now' = now /\ now < cooldown_until) =>
             /\ outcome' = "dropped"
             /\ UNCHANGED <<speech_buffer, silence_chunks, speech_chunk_count,
                            cooldown_until, recent_hashes, speech_queue,
                            vad_resets, episode, emit_times>>
       /\ \A i \in 1..Len(emit_times') - 1 :
             emit_times'[i + 1] - emit_times'[i] >= CooldownTicks
      ]_vars

\* Frames were dropped after a second utterance had been emitted.
C8_Witness ==
    /\ Len(emit_times) = 2
    /\ outcome = "dropped"

----------------------------------------------------------------------------
(* C9: a call of process that, with its chunk appended, has fewer than     *)
(* MinSamples samples buffered returns (False, None) without calling       *)
(* verify, keeps the chunk buffered and leaves last_verified as it was,    *)
(* whether or not a speaker is enrolled and whether or not last_verified   *)
(* is true.                                                                *)
C9_TooShortReturnsFalse ==
    [][(chunks_fed' = chunks_fed + 1 /\ last_call'.samples < MinSamples) =>
          /\ last_call'.samples = buffer_samples + last_call'.chunk.n
          /\ ~last_call'.verified
          /\ ~last_call'.has_audio
          /\ last_call'.verifies = 0
          /\ audio_buffer' = Append(audio_buffer, last_call'.chunk)
          /\ last_verified' = last_verified
      ]_vars

\* With a speaker enrolled and verified, a call found too little audio.
C9_Witness ==
    /\ enrolled
    /\ last_verified
    /\ last_call.kind = "process"
    /\ last_call.samples < MinSamples
    /\ ~last_call.verified

----------------------------------------------------------------------------
(* C10 as stated: with no speaker enrolled, every call of process made     *)
(* once the minimum sample count has been reached (since the last reset)   *)
(* returns verified = true.  Refuted: the call after a verified one finds  *)
(* the buffer trimmed to KeepChunks chunks and returns (False, None).      *)
C10_UnenrolledAlwaysVerified ==
    (~enrolled /\ min_reached /\ last_call.kind = "process") => last_call.verified

----------------------------------------------------------------------------
(* C11 as stated: with no speaker enrolled, or with the embedding model    *)
(* unavailable, every call of process returns (True, audio).  Refuted: a   *)
(* call that finds fewer than MinSamples samples buffered, at the start or *)
(* after a verified call has trimmed the buffer, returns (False, None).    *)
C11_FailOpenNeverWithholds ==
    (last_call.kind = "process" /\ (~enrolled \/ ~available)) =>
        (last_call.verified /\ last_call.has_audio)

----------------------------------------------------------------------------
----------------------------------------------------------------------------
\* The program state of the speaker filter and of the segmenter.
FilterState == <<audio_buffer, buffer_samples, last_verified, samples_since_verification>>
SegmenterBuffers == <<speech_buffer, speech_chunk_count, silence_chunks>>

(* C13: a reset leaves the empty buffer, zero counters and last_verified   *)
(* false, and a reset that follows a reset changes nothing: this holds for *)
(* reset() of the speaker filter and for the segmenter's reset to Idle,    *)
(* from every state they are applied to.                                   *)
C13_ResetIdempotent ==
    [][/\ last_call'.kind = "reset" => FilterState' = <<<<>>, 0, FALSE, 0>>
       /\ (last_call.kind = "reset" /\ last_call'.kind = "reset") =>
             FilterState' = FilterState
       /\ outcome' = "reset" => SegmenterBuffers' = <<<<>>, 0, 0>>
       /\ (outcome = "reset" /\ outcome' = "reset") =>
             SegmenterBuffers' = SegmenterBuffers
      ]_vars

\* The reset to Idle that ended an emitted utterance was applied once more.
C13_Witness ==
    /\ outcome = "reset"
    /\ vad_resets = 2
    /\ Len(speech_queue) = 1
    /\ Idle

----------------------------------------------------------------------------
\* Every utterance put on speech_queue so far, in the order of the puts.
AllPut == delivered \o speech_queue

\* The consumer iteration completes an accepted utterance: outside the
\* cooldown, enough speech, and a fingerprint that is not a recent one.
Accepts ==
    /\ ~CooldownActive(now)
    /\ ReturnsToIdle
    /\ SpokenInEpisode >= MinSpeechChunks
    /\ ~IsDuplicate(HashAudio(speech_buffer), recent_hashes)

(* C14: every accepted utterance is put on speech_queue exactly once, by   *)
(* the iteration that completes it; get_speech returns the utterances in   *)
(* the order of their emission, each once; an iteration that ends a        *)
(* too-short or duplicate episode, or that drops a frame in cooldown, puts *)
(* nothing.                                                                *)
C14_DeliveredExactlyOnce ==
    [][/\ Len(AllPut') = Len(emit_times')
       /\ dequeued' = dequeued + 1 =>
             /\ delivered' = delivered
             /\ IF Accepts
                THEN AllPut' = Append(AllPut, speech_buffer)
                ELSE AllPut' = AllPut
       /\ dequeued' = dequeued => AllPut' = AllPut
       /\ delivered' # delivered =>
             /\ delivered' = Append(delivered, Head(speech_queue))
             /\ speech_queue' = Tail(speech_queue)
       /\ \A i, j \in 1..Len(AllPut') : AllPut'[i] = AllPut'[j] => i = j
      ]_vars

\* Two utterances were emitted and taken in order, and a third episode,
\* a repetition of the first, was rejected.
C14_Witness ==
    /\ Len(delivered) = 2
    /\ speech_queue = <<>>
    /\ outcome = "duplicate"
    /\ delivered[1][1][2] < delivered[2][1][2]

----------------------------------------------------------------------------
(* C17: under every interleaving of the callback and the consumer, the     *)
(* consumer dequeues the frames in the order of their arrival, each once,  *)
(* the queue holds exactly the frames not yet dequeued, and the frames of  *)
(* the buffer and of every emitted utterance are in arrival order.         *)
C17_ArrivalOrder ==
    [][/\ dequeued' = dequeued + 1 =>
             /\ got'[2] = dequeued'
             /\ audio_queue' = Tail(audio_queue)
       /\ Len(audio_queue') = captured' - dequeued'
       /\ \A i \in 1..Len(audio_queue') : audio_queue'[i][2] = dequeued' + i
       /\ \A i \in 1..(Len(speech_buffer') - 1) :
             speech_buffer'[i][2] < speech_buffer'[i + 1][2]
       /\ \A k \in 1..Len(AllPut') : \A i \in 1..(Len(AllPut'[k]) - 1) :
             AllPut'[k][i][2] < AllPut'[k][i + 1][2]
      ]_vars

\* The callback ran ahead of the consumer right after an emission.
C17_Witness ==
    /\ outcome = "emitted"
    /\ Len(audio_queue) = MaxQueue
    /\ got[2] = dequeued
    /\ captured = dequeued + MaxQueue

----------------------------------------------------------------------------
(* C15: in _on_audio_chunk speech_start is fired exactly by the step that  *)
(* takes the segmenter from Idle to Speaking and speech_end exactly by the *)
(* step that returns it to Idle (utterance completed or discarded); the    *)
(* events alternate, beginning with speech_start, and is_speaking is true  *)
(* exactly after a speech_start that has had no speech_end yet.            *)
C15_BoundaryEventsAlternate ==
    [][/\ (events' = Append(events, "speech_start")) <=>
             (speech_buffer = <<>> /\ speech_buffer' # <<>>)
       /\ (events' = Append(events, "speech_end")) <=> ReturnsToIdle
       /\ events' # events =>
             \/ events' = Append(events, "speech_start")
             \/ events' = Append(events, "speech_end")
       /\ \A i \in 1..Len(events') :
             events'[i] = IF i % 2 = 1 THEN "speech_start" ELSE "speech_end"
       /\ is_speaking' <=> Len(events') % 2 = 1
      ]_vars

\* After a transcribed utterance and its cooldown a second one is under
\* way, in its trailing silence; three events have been fired.
C15_Witness ==
    /\ events = <<"speech_start", "speech_end", "speech_start">>
    /\ is_speaking
    /\ Len(transcribed) = 1
    /\ silence_chunks > 0

----------------------------------------------------------------------------
(* C16 as stated: in every capture path the device callback only copies    *)
(* the frame and enqueues it, and calls neither the VAD nor any            *)
(* segmentation logic.  Refuted by the callback of StreamingAudioCapture,  *)
(* which calls vad.is_speech on every frame.                               *)
C16_CallbackOnlyEnqueues == invoked \subseteq {"copy", "put"}

----------------------------------------------------------------------------
(* C18 as stated: whatever start() and stop() calls are made, at most one  *)
(* consumer thread is in _process_audio at any time.  Refuted: a stop()    *)
(* whose join times out leaves its thread in the loop, and the next        *)
(* start() sets the flag again and creates a second one.                   *)
C18_AtMostOneConsumer == Cardinality({t \in Threads : Alive(t)}) <= 1

----------------------------------------------------------------------------
(* C19: stop() clears the running flag and closes the stream, its join     *)
(* returns and forgets the thread, and unless start() is called again      *)
(* every consumer thread leaves its loop, also when the queue is empty.    *)
C19_StopEndsConsumer ==
    /\ [][/\ (running /\ ~running') =>
                /\ ~stream'
                /\ caller' = IF processor_thread = 0 THEN "idle" ELSE "joining"
          /\ (caller = "joining" /\ caller' = "idle") =>
                (processor_thread' = 0 /\ ~running' /\ ~stream')
         ]_vars
    /\ (caller = "joining") ~> (caller = "idle")
    /\ (~running) ~> (running \/ AllExited)

\* After a stop() the consumer has left its loop, the queue is empty and
\* an incomplete utterance is still buffered.
C19_Witness ==
    /\ ~running
    /\ ~stream
    /\ caller = "idle"
    /\ processor_thread = 0
    /\ threads[1].pc = "done"
    /\ AllExited
    /\ audio_queue = <<>>
    /\ speech_buffer # <<>>

----------------------------------------------------------------------------
(* C20 as stated: the frames buffered for an incomplete utterance when     *)
(* stop() is called are in no utterance emitted after a later start().     *)
(* Refuted: neither stop() nor start() clears the buffer, and the          *)
(* utterance completed after the restart begins with those frames.         *)
C20_BufferedFramesDiscardedOnStop ==
    [][speech_queue' # speech_queue => ~(stale.frames > 0 /\ stale.restarted)]_vars


----------------------------------------------------------------------------
(* The lazy load of the speaker model                                      *)

\* The callers that are inside from_hparams
Loading == {c \in Callers : callers[c].pc = "load"}

\* Every caller that got True back finds the model set
TrueMeansLoaded == \A c \in Callers : callers[c].result = "true" => model = "loaded"

(* C21 as stated: under any interleaving of concurrent first calls to      *)
(* _ensure_model, from_hparams is executed at most once, and every caller  *)
(* that gets True back observes a loaded model.  Refuted by a load that    *)
(* raises: the model stays unset and the next caller loads again.          *)
C21_LoadedAtMostOnce ==
    /\ (\A c \in Callers : callers[c].calls <= 1) => loads.started <= 1
    /\ TrueMeansLoaded

(* C21 amended: from_hparams is never executed by two callers at once,    *)
(* completes at most once and is not executed once the model is set (only  *)
(* a load that raised is followed by another), and every caller that gets  *)
(* True back observes a loaded model.                                      *)
C21_LoadCompletesAtMostOnce ==
    /\ Cardinality(Loading) <= 1
    /\ loads.done <= 1
    /\ (model = "loaded") <=> (loads.done = 1)
    /\ (model = "loaded") => Loading = {}
    /\ TrueMeansLoaded

\* Two concurrent first calls: one caller is inside from_hparams while the
\* other, having passed the outer test with the model unset, waits for the
\* lock.
C21_Witness ==
    /\ \A c \in Callers : callers[c].calls = 1
    /\ \E c \in Callers : callers[c].pc = "load"
    /\ \E c \in Callers : callers[c].pc = "acquire"

----------------------------------------------------------------------------
(* Model-backed calls inside frame processing                              *)

\* The capture is running and the caller is outside start() and stop()
Listening == running /\ caller = "idle" /\ processor_thread # 0

(* C22: while the pipeline is running, a failing VAD call (is_speech or    *)
(* reset) does not raise out of the processing loop: the consumer that     *)
(* start() created is alive and goes on to the next frame.  Refuted: the   *)
(* exception ends the consumer thread while the capture stays running.     *)
C22_ConsumerSurvivesFailure ==
    Listening => Alive(processor_thread)

(* C23: the VAD classifier of one AudioCapture is never entered by two     *)
(* threads at once.  Refuted: a consumer that outlived a timed-out join    *)
(* and the consumer of the next start() are both inside the VAD call.      *)
C23_VadEnteredByOneThread ==
    Cardinality({t \in Threads : threads[t].pc = "vad" /\ ~CooldownActive(now)}) <= 1

----------------------------------------------------------------------------
(* The segmenter, step by step                                             *)

\* buffer continues shorter: nothing buffered was removed
Extends(buffer, shorter) ==
    /\ Len(buffer) >= Len(shorter)
    /\ SubSeq(buffer, 1, Len(shorter)) = shorter

\* A step that completes an utterance is one that is scored, on a frame
\* classified as silence, and takes the silence count to MaxSilenceChunks.
CompletingStep ==
    /\ Scored
    /\ outcome' \in {"emitted", "duplicate", "short"}
    /\ speech_buffer # <<>>
    /\ silence_chunks + 1 = MaxSilenceChunks

(* C24: an utterance is completed (emitted or discarded) only in a step    *)
(* that processes a silence frame bringing the silence count to            *)
(* MaxSilenceChunks; in every other step nothing is emitted and no         *)
(* buffered frame is removed, so while speech never pauses for             *)
(* MaxSilenceChunks frames the buffer is never cleared.                    *)
C24_CompletedOnlyAtMaxSilence ==
    [][/\ (ReturnsToIdle \/ Emits) => CompletingStep
       /\ ~CompletingStep => /\ Extends(speech_buffer', speech_buffer)
                             /\ speech_chunk_count' >= speech_chunk_count
                             /\ speech_queue' = speech_queue
       /\ silence_chunks' < MaxSilenceChunks]_vars

\* An utterance of more speech than the minimum was emitted, at its
\* MaxSilenceChunks-th consecutive silence frame.
C24_Witness ==
    /\ outcome = "emitted"
    /\ Len(speech_queue) = 1
    /\ Len(last_audio) > MinSpeechChunks + TrailingSilence
    /\ Idle

----------------------------------------------------------------------------
(* C25: the cooldown is consulted before a frame is admitted (a frame in   *)
(* cooldown changes nothing) and is armed only in the step that emits a    *)
(* non-duplicate utterance, to now + CooldownTicks; a too-short or         *)
(* duplicate completion emits nothing and leaves cooldown_until and the    *)
(* recent fingerprints as they were, while clearing the buffer and the     *)
(* counters and resetting the VAD.                                         *)
C25_CooldownArmedOnlyOnEmission ==
    [][/\ (now' = now /\ now < cooldown_until) =>
             UNCHANGED <<speech_buffer, speech_chunk_count, silence_chunks,
                         cooldown_until, recent_hashes, speech_queue, vad_resets>>
       /\ cooldown_until' # cooldown_until => Emits
       /\ Emits => /\ cooldown_until' = now + CooldownTicks
                   /\ ~(now < cooldown_until)
       /\ (CompletingStep /\ (speech_chunk_count < MinSpeechChunks
                              \/ \E i \in 1..Len(recent_hashes) :
                                     recent_hashes[i] = HashAudio(speech_buffer))) =>
             /\ ~Emits
             /\ UNCHANGED <<cooldown_until, recent_hashes>>
             /\ speech_buffer' = <<>>
             /\ speech_chunk_count' = 0
             /\ silence_chunks' = 0
             /\ vad_resets' = 1]_vars

\* A duplicate was completed after the cooldown of the first emission ran
\* out, and the cooldown is still the one armed then.
C25_Witness ==
    /\ outcome = "duplicate"
    /\ Len(speech_queue) = 1
    /\ cooldown_until = LastArmed + CooldownTicks
    /\ now >= cooldown_until
    /\ Len(recent_hashes) = 1

----------------------------------------------------------------------------
\* The number of silence frames at the end of audio
RECURSIVE TrailingRun(_)
TrailingRun(audio) ==
    IF audio = <<>> \/ audio[Len(audio)] # SilenceFrame THEN 0
    ELSE 1 + TrailingRun(SubSeq(audio, 1, Len(audio) - 1))

Min(a, b) == IF a <= b THEN a ELSE b

(* C26: within a run of consecutive silence frames after buffered speech   *)
(* exactly the first min(run length, TrailingSilence) frames are appended  *)
(* and later ones only increment the silence count; a speech frame resets  *)
(* the silence count to 0; a silence frame in Idle changes nothing.        *)
C26_TrailingSilence ==
    /\ [](TrailingRun(speech_buffer) = Min(silence_chunks, TrailingSilence))
    /\ [][Scored =>
            /\ outcome' = "speech" =>
                  /\ silence_chunks' = 0
                  /\ speech_buffer' = Append(speech_buffer, SpeechFrame)
            /\ outcome' = "silence" =>
                  /\ silence_chunks' = silence_chunks + 1
                  /\ speech_chunk_count' = speech_chunk_count
                  /\ speech_buffer' = IF silence_chunks < TrailingSilence
                                      THEN Append(speech_buffer, SilenceFrame)
                                      ELSE speech_buffer
            /\ outcome' = "idle" =>
                  /\ speech_buffer = <<>>
                  /\ UNCHANGED <<speech_buffer, silence_chunks, speech_chunk_count,
                                 cooldown_until, recent_hashes, speech_queue>>
            /\ Emits => TrailingRun(speech_queue'[Len(speech_queue')]) = TrailingSilence]_vars

\* A second silence run of the same utterance, longer than TrailingSilence:
\* the first run was cut short by speech, which reset the silence count.
C26_Witness ==
    /\ outcome = "silence"
    /\ silence_chunks > TrailingSilence
    /\ TrailingRun(speech_buffer) = TrailingSilence
    /\ \E i \in 1..(Len(speech_buffer) - 1) :
          speech_buffer[i] = SilenceFrame /\ speech_buffer[i + 1] = SpeechFrame

----------------------------------------------------------------------------
(* The speaker filter, call by call                                        *)

\* The step is a call of process
Processes == chunks_fed' = chunks_fed + 1

\* The buffer the call works on: the rolling buffer with the chunk appended
Buffered == Append(audio_buffer, last_call'.chunk)

\* The call ran verify and the audio was rejected
Rejected == Processes /\ last_verify'.called /\ ~last_verify'.is_match

\* The call returned (True, audio)
Accepted == Processes /\ last_call'.verified

(* C27: when verification rejects, process leaves the rolling buffer       *)
(* empty with a sample count of 0, last_verified false and                 *)
(* samples_since_verification 0, and returns (False, None); no chunk       *)
(* buffered up to a rejection is in the buffer or in any audio returned    *)
(* afterwards.                                                             *)
C27_RejectionAbandonsBuffer ==
    /\ [][Rejected =>
            /\ audio_buffer' = <<>>
            /\ buffer_samples' = 0
            /\ last_verified' = FALSE
            /\ samples_since_verification' = 0
            /\ ~last_call'.verified
            /\ ~last_call'.has_audio
            /\ last_call'.audio = NoAudio
            /\ abandoned' = last_call'.chunk.id
            /\ \A i \in 1..Len(audio_buffer) : audio_buffer[i].id <= abandoned']_vars
    /\ [](\A i \in 1..Len(audio_buffer) : audio_buffer[i].id > abandoned)
    /\ [](\A i \in 1..Len(last_call.audio) : last_call.audio[i].id > abandoned)

\* Audio was returned by a call made after a rejection.
C27_Witness ==
    /\ enrolled
    /\ abandoned > 0
    /\ last_call.has_audio
    /\ last_call.chunk.id > abandoned

----------------------------------------------------------------------------
(* C28 as stated: an accepted call returns the whole buffer as it was      *)
(* before trimming, and after every accepted call the rolling buffer holds *)
(* only its most recent KeepChunks chunks.  Refuted by an accepted call    *)
(* on a buffer of four or five chunks, which is kept whole.                *)
C28_KeepsThreeAfterAcceptance ==
    [][Accepted =>
          /\ last_call'.has_audio
          /\ last_call'.audio = Buffered
          /\ Len(audio_buffer') <= KeepChunks
          /\ audio_buffer' = SubSeq(Buffered, Len(Buffered) - Len(audio_buffer') + 1,
                                    Len(Buffered))]_vars

(* C28 amended: an accepted call returns the whole buffer as it was before *)
(* trimming; afterwards the rolling buffer holds only its most recent      *)
(* KeepChunks chunks if it held more than TrimAbove, and is kept whole     *)
(* otherwise, so it never holds more than TrimAbove chunks after an        *)
(* accepted call.                                                          *)
C28_TrimmedAboveFive ==
    [][Accepted =>
          /\ last_call'.has_audio
          /\ last_call'.audio = Buffered
          /\ audio_buffer' =
                IF Len(Buffered) > TrimAbove
                THEN SubSeq(Buffered, Len(Buffered) - KeepChunks + 1, Len(Buffered))
                ELSE Buffered
          /\ buffer_samples' = SumSamples(audio_buffer')
          /\ Len(audio_buffer') <= TrimAbove]_vars

\* An accepted call returned more than TrimAbove chunks and left the last
\* KeepChunks of them buffered.
C28_Witness ==
    /\ last_call.verified
    /\ Len(last_call.audio) > TrimAbove
    /\ Len(audio_buffer) = KeepChunks
    /\ audio_buffer[KeepChunks] = last_call.chunk

----------------------------------------------------------------------------
\* samples_since_verification as the call accumulates it before its test
Since == samples_since_verification + last_call'.chunk.n

\* What a call with the minimum buffered does besides deciding to verify
VerifyOrReuse ==
    /\ last_verify'.called => samples_since_verification' = 0
    /\ ~last_verify'.called =>
          /\ last_call'.verified = last_verified
          /\ UNCHANGED last_verified
          /\ samples_since_verification' = Since

(* C29 as stated: once the minimum is buffered, a call of process invokes  *)
(* verify iff the filter has never verified successfully or                *)
(* samples_since_verification >= VerificationInterval; otherwise it reuses *)
(* the cached last_verified; every verify call zeroes                      *)
(* samples_since_verification.  Refuted: after a success and a later       *)
(* rejection the next call with the minimum buffered verifies again.       *)
C29_VerifiesIffNeverVerified ==
    [][(Processes /\ last_call'.samples >= MinSamples) =>
          /\ last_verify'.called <=> (~ever_verified \/ Since >= VerificationInterval)
          /\ VerifyOrReuse]_vars

(* C29 amended: once the minimum is buffered, a call of process invokes    *)
(* verify iff last_verified is false (nothing verified yet, or the last    *)
(* verification rejected, or a reset since) or samples_since_verification  *)
(* >= VerificationInterval; otherwise it reuses the cached last_verified,  *)
(* which is then true; every verify call zeroes                            *)
(* samples_since_verification, and no call below the minimum verifies.     *)
C29_VerifiesIffNotVerified ==
    [][Processes =>
          /\ last_call'.samples = buffer_samples + last_call'.chunk.n
          /\ last_call'.samples >= MinSamples =>
                /\ last_verify'.called <=>
                      (~last_verified \/ Since >= VerificationInterval)
                /\ VerifyOrReuse
                /\ ~last_verify'.called => last_call'.verified
          /\ last_call'.samples < MinSamples => ~last_verify'.called]_vars

\* A verification made because the interval had passed since a successful
\* one: it rejected.
C29_Witness ==
    /\ enrolled
    /\ ever_verified
    /\ last_verify.called
    /\ ~last_verify.is_match
    /\ abandoned = chunks_fed

----------------------------------------------------------------------------
(* C30: in every state reachable by process and reset calls,               *)
(* last_verified implies that the rolling buffer is not empty; after a     *)
(* rejection or a reset the buffer is empty and last_verified is false.    *)
C30_VerifiedImpliesBuffered ==
    /\ last_verified => (audio_buffer # <<>> /\ buffer_samples > 0)
    /\ (last_call.kind = "reset" \/ (last_verify.called /\ ~last_verify.is_match)) =>
          (audio_buffer = <<>> /\ ~last_verified)

\* A verified filter whose buffer is the overlap left by a later trim than
\* the first.
C30_Witness ==
    /\ enrolled
    /\ last_verified
    /\ last_call.kind = "process"
    /\ Len(audio_buffer) = KeepChunks
    /\ audio_buffer[1].id > KeepChunks + TrimAbove

----------------------------------------------------------------------------
(* C31: whenever the cooldown is active (now < cooldown_until) the         *)
(* segmenter is Idle: the speech buffer is empty and both counters are     *)
(* zero; the cooldown is armed only in a step that resets the state, and   *)
(* a frame arriving during the cooldown touches neither buffer, counters   *)
(* nor VAD.                                                                *)
C31_CooldownImpliesIdle ==
    /\ [](now < cooldown_until =>
             (speech_buffer = <<>> /\ speech_chunk_count = 0 /\ silence_chunks = 0))
    /\ [][/\ cooldown_until' # cooldown_until =>
                (speech_buffer' = <<>> /\ speech_chunk_count' = 0
                 /\ silence_chunks' = 0 /\ vad_resets' = 1)
          /\ (now' = now /\ now < cooldown_until) =>
                UNCHANGED <<speech_buffer, speech_chunk_count, silence_chunks,
                            vad_resets>>
          /\ now' >= now]_vars

\* A frame was dropped in the cooldown of the first emission, a tick or
\* more after it was armed.
C31_Witness ==
    /\ now < cooldown_until
    /\ outcome = "dropped"
    /\ Len(speech_queue) = 1
    /\ now > LastArmed

----------------------------------------------------------------------------
\* The frames of audio that are speech frames
SpeechIn(audio) == {i \in 1..Len(audio) : audio[i] = SpeechFrame}

\* The shape of an utterance: it begins with speech, ends in exactly
\* TrailingSilence silence frames, and is no shorter than the minimum.
WellFormed(audio) ==
    /\ audio # <<>>
    /\ audio[1] = SpeechFrame
    /\ TrailingRun(audio) = TrailingSilence
    /\ Cardinality(SpeechIn(audio)) >= MinSpeechChunks
    /\ Len(audio) >= MinSpeechChunks + TrailingSilence

(* C32: every emitted utterance starts with a speech-classified frame,     *)
(* ends with exactly TrailingSilence silence-classified frames, contains   *)
(* every speech frame admitted since the last Idle state, and so has at    *)
(* least MinSpeechChunks + TrailingSilence frames.                         *)
C32_UtteranceShape ==
    /\ [](\A k \in 1..Len(speech_queue) : WellFormed(speech_queue[k]))
    /\ [][Emits =>
            LET audio == speech_queue'[Len(speech_queue')]
            IN  /\ speech_queue' = Append(speech_queue, audio)
                /\ episode[1] = <<audio[1], TRUE>>
                /\ Cardinality(SpeechIn(audio)) = SpokenInEpisode
                /\ SpokenInEpisode = speech_chunk_count
                /\ \A i \in 1..Len(episode) :
                      episode[i][2] => episode[i][1] = SpeechFrame]_vars

\* An utterance with a pause inside was emitted.
C32_Witness ==
    /\ outcome = "emitted"
    /\ \E i \in 1..(Len(last_audio) - 1) :
          last_audio[i] = SilenceFrame /\ last_audio[i + 1] = SpeechFrame
    /\ speech_queue[Len(speech_queue)] = last_audio

----------------------------------------------------------------------------
\* The fingerprints of the last n accepted utterances, oldest first
LastAccepted(n) ==
    LET k == Min(n, Len(speech_queue))
    IN  [i \in 1..k |-> HashAudio(speech_queue[Len(speech_queue) - k + i])]

\* Fewer than MaxRecent utterances were accepted since one with the
\* fingerprint h
RecentlyAccepted(h) ==
    \E i \in 1..Len(LastAccepted(MaxRecent)) : LastAccepted(MaxRecent)[i] = h

(* C33: the recent list holds pairwise distinct fingerprints, those of the *)
(* last accepted utterances in acceptance order; a rejected duplicate      *)
(* leaves the list and its order unchanged; and an utterance with enough   *)
(* speech is accepted iff its fingerprint is not that of one of the last   *)
(* MaxRecent accepted utterances, so a fingerprint is accepted again once  *)
(* MaxRecent others were accepted after it, and not earlier.               *)
C33_RecentDistinctInOrder ==
    /\ [](/\ \A i, j \in 1..Len(recent_hashes) :
                recent_hashes[i] = recent_hashes[j] => i = j
          /\ recent_hashes = LastAccepted(MaxRecent))
    /\ [][/\ outcome' = "duplicate" => recent_hashes' = recent_hashes
          /\ (Scored /\ ReturnsToIdle /\ speech_chunk_count >= MinSpeechChunks) =>
                /\ Emits <=> ~RecentlyAccepted(HashAudio(speech_buffer))
                /\ ~Emits => (outcome' = "duplicate" /\ recent_hashes' = recent_hashes)
                /\ Emits => recent_hashes'[Len(recent_hashes')] = HashAudio(speech_buffer)
         ]_vars

\* The first utterance was accepted a second time, as the seventh, after
\* five others.
C33_Witness ==
    /\ Len(speech_queue) = MaxRecent + 2
    /\ speech_queue[MaxRecent + 2] = speech_queue[1]
    /\ outcome = "emitted"

----------------------------------------------------------------------------
(* C34: fed the same frames, classifications and clock readings, with      *)
(* speaker verification disabled, never paused, and no two completed       *)
(* utterances of the same fingerprint, _on_audio_chunk and _process_audio  *)
(* pass through the same buffer, counter and cooldown states (whatever the *)
(* frame, each can follow the other's step) and hand on the same sequence  *)
(* of utterances.                                                          *)
C34_SegmentersEquivalent ==
    /\ [](transcribed = speech_queue)
    /\ [](\A chunk \in BothFrames, is_speech \in BOOLEAN :
             FeedBoth(chunk, is_speech) => ENABLED Both(chunk, is_speech))

\* Two utterances were completed, the second after the cooldown of the
\* first, and both segmenters handed on both.
C34_Witness ==
    /\ Len(speech_queue) = 2
    /\ transcribed = speech_queue
    /\ speech_queue[1] # speech_queue[2]
    /\ outcome = "emitted"
    /\ events = <<"speech_start", "speech_end", "speech_start", "speech_end">>

----------------------------------------------------------------------------
\* A step of the server that completes an utterance with enough speech
Completes == ReturnsToIdle /\ speech_chunk_count >= MinSpeechChunks

(* C35: in Yappatron a completed utterance is queued for transcription iff *)
(* speaker id is disabled or no speaker is enrolled (verify is not called) *)
(* or verify returns a match; an utterance that fails verification is not  *)
(* queued, and its step still arms the cooldown, resets buffer, counters   *)
(* and VAD, and emits speech_end, exactly as for an accepted one.          *)
C35_RejectedStillArmsCooldown ==
    [][/\ Completes =>
             /\ last_verify'.called <=> (speaker_id /\ enrolled)
             /\ (transcribed' # transcribed) <=>
                   (~(speaker_id /\ enrolled) \/ last_verify'.is_match)
             /\ transcribed' # transcribed =>
                   transcribed' = Append(transcribed, speech_buffer)
             /\ cooldown_until' = now + CooldownTicks
             /\ speech_buffer' = <<>>
             /\ speech_chunk_count' = 0
             /\ silence_chunks' = 0
             /\ vad_resets' = 1
             /\ ~is_speaking'
             /\ events' = Append(events, "speech_end")
       /\ transcribed' # transcribed => Completes]_vars

\* An utterance of the wrong speaker was completed: nothing was queued and
\* the cooldown was armed.
C35_Witness ==
    /\ outcome = "rejected"
    /\ last_verify.called
    /\ ~last_verify.is_match
    /\ transcribed = <<>>
    /\ cooldown_until = now + CooldownTicks
    /\ Idle
    /\ events = <<"speech_start", "speech_end">>

----------------------------------------------------------------------------
\* What the server has segmented and announced so far
Segmented == <<speech_buffer, speech_chunk_count, silence_chunks, is_speaking,
               cooldown_until, vad_resets, events, transcribed>>

(* C36: while Yappatron is paused an incoming chunk leaves the speech      *)
(* buffer, both counters, is_speaking, cooldown_until and the VAD          *)
(* untouched and emits no event; pausing and resuming neither discard nor  *)
(* emit a partially buffered utterance, so a frame admitted after the      *)
(* resume is appended to the frames buffered before the pause.             *)
C36_PausedChunksIgnored ==
    [][/\ (paused /\ paused') => Segmented' = Segmented
       /\ (paused /\ paused' /\ outcome' # outcome) => outcome' = "paused"
       /\ paused' # paused => (Segmented' = Segmented /\ outcome' = outcome)
       /\ (~paused /\ speech_buffer' # speech_buffer /\ speech_buffer' # <<>>) =>
             /\ Len(speech_buffer') = Len(speech_buffer) + 1
             /\ SubSeq(speech_buffer', 1, Len(speech_buffer)) = speech_buffer]_vars

\* A chunk arrived during a pause that began in the middle of an utterance:
\* the frames buffered before the pause are still there.
C36_Witness ==
    /\ paused
    /\ outcome = "paused"
    /\ Len(speech_buffer) > 1
    /\ is_speaking
    /\ events = <<"speech_start">>

----------------------------------------------------------------------------
\* The returned buffers that contain the frame
ReturnedIn(id) ==
    {k \in 1..Len(returned_log) :
        \E i \in 1..Len(returned_log[k]) : returned_log[k][i] = id}

\* The last KeepChunks frames of a returned buffer: those retained after it
Retained(ids) == {ids[i] : i \in (Len(ids) - KeepChunks + 1)..Len(ids)}

\* The frames two returned buffers have in common
Common(a, b) == {a[i] : i \in 1..Len(a)} \cap {b[i] : i \in 1..Len(b)}

(* C37: with frames of Blocksize samples and the default minimum, two      *)
(* consecutive returned buffers overlap in exactly the KeepChunks frames   *)
(* retained after the first (in none once a rejection or reset has cleared *)
(* them), every frame is in at most two returned buffers, the frames of a  *)
(* returned buffer are in arrival order, and a frame that has left the     *)
(* rolling buffer and is in no returned buffer was cleared by a rejection  *)
(* or a reset.                                                             *)
C37_ReturnedBuffersOverlap ==
    /\ \A k \in 1..(Len(returned_log) - 1) :
          LET a == returned_log[k]
              b == returned_log[k + 1]
          IN  IF Retained(a) \subseteq cleared
              THEN Common(a, b) = {}
              ELSE /\ Common(a, b) = Retained(a)
                   /\ Cardinality(Common(a, b)) = KeepChunks
                   /\ \A i \in 1..KeepChunks : b[i] = a[Len(a) - KeepChunks + i]
    /\ \A id \in 1..chunks_fed : Cardinality(ReturnedIn(id)) <= 2
    /\ \A k \in 1..Len(returned_log) :
          /\ Len(returned_log[k]) * Blocksize >= MinSamples
          /\ \A i \in 1..(Len(returned_log[k]) - 1) :
                returned_log[k][i + 1] = returned_log[k][i] + 1
    /\ \A id \in 1..chunks_fed :
          (ReturnedIn(id) = {} /\ id \notin IdSet(audio_buffer)) => id \in cleared
    /\ (~enrolled /\ cleared = {}) =>
          \A k \in 1..(Len(returned_log) - 1) :
              Cardinality(Common(returned_log[k], returned_log[k + 1])) = KeepChunks

\* Three buffers were returned in a row, each overlapping the next in the
\* retained frames, with nothing cleared.
C37_Witness ==
    /\ Len(returned_log) = 3
    /\ cleared = {}
    /\ enrolled
    /\ Cardinality(ReturnedIn(returned_log[2][1])) = 2
    /\ Cardinality(ReturnedIn(returned_log[3][1])) = 2

\* A step of StreamingAudioCapture._audio_callback (get_chunk shortens the
\* queue; the callback of AudioCapture does not classify).
StreamCallback ==
    /\ "vad.is_speech" \in invoked'
    /\ Len(chunk_queue') >= Len(chunk_queue)

Alternate(calls) ==
    \A i \in 1..Len(calls) :
       calls[i] = IF i % 2 = 1 THEN "speech_start" ELSE "speech_end"

\* C38: the speech_start and speech_end callbacks of StreamingAudioCapture
\* alternate, beginning with a start.  A start is called exactly on a speech
\* frame heard while not speaking; an end exactly on the 30th silence frame in
\* a row heard while speaking, in the callback that also resets the VAD.  A
\* frame is enqueued exactly when it is a speech frame or one of the first 5
\* silence frames of a run heard while speaking: every speech frame is
\* enqueued, and nothing is enqueued while not speaking.
C38_StartEndAlternate ==
    /\ [](Alternate(events) /\ (is_speaking <=> Len(events) % 2 = 1))
    /\ [][StreamCallback =>
            LET starts == heard'.is_speech /\ ~is_speaking
                ends == /\ ~heard'.is_speech
                        /\ is_speaking
                        /\ heard'.run = StreamMaxSilence
                kept == \/ heard'.is_speech
                        \/ is_speaking /\ heard'.run <= StreamTrailing
            IN  /\ events' = IF starts THEN Append(events, "speech_start")
                             ELSE IF ends THEN Append(events, "speech_end")
                             ELSE events
                /\ ends <=> "vad.reset" \in invoked'
                /\ ends <=> "on_speech_end" \in invoked'
                /\ starts <=> "on_speech_start" \in invoked'
                /\ kept <=> Len(chunk_queue') = Len(chunk_queue) + 1
                /\ kept => Classify(chunk_queue'[Len(chunk_queue')]) = heard'.is_speech
                /\ kept => SubSeq(chunk_queue', 1, Len(chunk_queue)) = chunk_queue
                /\ ~kept => chunk_queue' = chunk_queue
                /\ (~is_speaking /\ ~heard'.is_speech) => chunk_queue' = chunk_queue
          ]_vars

\* Two utterances were streamed: each started, ran into 30 silence frames and
\* ended.
C38_Witness ==
    /\ events = <<"speech_start", "speech_end", "speech_start", "speech_end">>
    /\ heard.run = StreamMaxSilence
    /\ "vad.reset" \in invoked
    /\ ~is_speaking

Begun == {i \in 1..Len(tr_log) : tr_log[i].op = "begin"}

\* C39: RealtimeTranscriber transcribes one utterance at a time (no thread
\* enters transcribe() while another is inside it: every transcription
\* begun is ended before the next begins), in the order of the queue, each
\* at most once, and an entry that is None or shorter than 4800 samples is
\* dropped without being transcribed.
C39_OneAtATimeInOrder ==
    /\ Cardinality({w \in Workers : tr_workers[w].pc = "transcribe"}) <= 1
    /\ \A i \in Begun :
          /\ ~Skipped(tr_log[i].audio)
          /\ \A j \in Begun : i < j =>
                /\ tr_log[i].audio.id < tr_log[j].audio.id
                /\ \E k \in (i + 1)..(j - 1) :
                      /\ tr_log[k].op = "end"
                      /\ tr_log[k].audio = tr_log[i].audio
    /\ \A i \in 1..Len(tr_log) :
          tr_log[i].op = "drop" => Skipped(tr_log[i].audio)
    /\ \A i \in Dequeued : \A j \in Dequeued :
          i < j => tr_log[i].audio.id < tr_log[j].audio.id

====
